---- MODULE Spec2Model ----
(***************************************************************************)
(* Model of the DocPilot ingestion worker (worker/src/ingestionWorker.ts): *)
(* the single-slot job state, the bounded-concurrency page queue, the      *)
(* page task (processUrl) split at its suspension points, the settle-delay *)
(* timer of checkJobCompletion and the messages posted on the port.        *)
(***************************************************************************)
EXTENDS Integers, Sequences, FiniteSets, TLC

\* const DEFAULT_CONCURRENCY = 3
DEFAULT_CONCURRENCY == 3

\* null / undefined
Null == [null |-> TRUE]

(***************************************************************************)
(* URLs.  A raw URL is a record; an unparsable string has valid = FALSE.   *)
(* query is the sequence of query parameter names (numbers, in name        *)
(* order), hash the fragment ("" when absent).                             *)
(***************************************************************************)
Url(host, path, query, hash) ==
  [valid |-> TRUE, host |-> host, path |-> path, query |-> query, hash |-> hash]

InvalidUrl == [valid |-> FALSE, host |-> "", path |-> "", query |-> <<>>, hash |-> ""]

DocsHost == "docs.example.com"
ExternalHost == "external.org"

RootUrl == Url(DocsHost, "/", <<>>, "")
PageA == Url(DocsHost, "/a", <<>>, "")
PageB == Url(DocsHost, "/b", <<>>, "")
PageX == Url(ExternalHost, "/x", <<>>, "")
\* the root page again, as a raw seed with a fragment
RootWithHash == Url(DocsHost, "/", <<>>, "top")
\* a page with two query parameters, and two raw spellings of it: parameters
\* in another order, and a fragment
PageQ == Url(DocsHost, "/q", <<1, 2>>, "")
PageQUnsorted == Url(DocsHost, "/q", <<2, 1>>, "")
PageQWithHash == Url(DocsHost, "/q", <<1, 2>>, "sec")

\* URLSearchParams.sort(): stable sort of the parameters by name
RECURSIVE InsertSorted(_, _)
InsertSorted(s, x) ==
  IF s = <<>> THEN <<x>>
  ELSE IF x < Head(s) THEN <<x>> \o s
  ELSE <<Head(s)>> \o InsertSorted(Tail(s), x)

RECURSIVE SortParams(_)
SortParams(q) ==
  IF q = <<>> THEN <<>>
  ELSE InsertSorted(SortParams(SubSeq(q, 1, Len(q) - 1)), q[Len(q)])

\* normalizeUrl: new URL(raw); hash = ''; searchParams.sort(); null on a throw
normalizeUrl(rawUrl) ==
  IF ~rawUrl.valid THEN Null
  ELSE [rawUrl EXCEPT !.hash = "", !.query = SortParams(rawUrl.query)]

\* No hostname: safeHostname's null, which its callers only test for falsiness
\* (`!host`, `.filter(Boolean)`), as they would the empty string
NoHost == ""

\* safeHostname: new URL(raw).hostname, null on a throw
safeHostname(rawUrl) ==
  IF ~rawUrl.valid THEN NoHost ELSE rawUrl.host

(***************************************************************************)
(* The crawled site: the links parseHtml returns for each page (already    *)
(* normalized by normalizeLink and de-duplicated).                         *)
(***************************************************************************)
Links(url) ==
  IF url = RootUrl THEN <<PageA, PageX>>
  ELSE IF url = PageA THEN <<RootUrl, PageB>>
  ELSE <<>>

\* Outcomes of fetchAndParse: text and links, empty text, or a throw
FetchOutcomes == {"ok", "empty", "error"}
\* Outcomes of retrievalEngine.indexChunks: stored, or a throw
EmbedOutcomes == {"ok", "error"}

(***************************************************************************)
(* Job configurations a start message may carry (IngestionJobConfig).      *)
(* concurrency 0 stands for an unset concurrency, allowedDomains {} for an *)
(* unset or empty allow-list.                                              *)
(***************************************************************************)
\* one seed; two seeds, the first with a fragment; one seed that is no URL;
\* two spellings of one page
SeedChoices ==
  {<<RootUrl>>, <<RootWithHash, PageA>>, <<InvalidUrl>>,
   <<PageQUnsorted, PageQWithHash>>}
\* maxDepth ranges over 0..MaxDepthBound, maxPages over 1..MaxPagesBound
MaxDepthBound == 1
MaxPagesBound == 2
ConcurrencyChoices == {1, 2}

Config(jobId, seeds, maxDepth, maxPages, followExternal, concurrency) ==
  [jobId |-> jobId, seedUrls |-> seeds, maxDepth |-> maxDepth,
   maxPages |-> maxPages, followExternal |-> followExternal,
   allowedDomains |-> {}, concurrency |-> concurrency]

\* Domain policies other than the default one (followExternal false, no
\* allowedDomains): follow every link; allow only another host than the
\* seed's; both
DomainPolicies ==
  { [followExternal |-> TRUE, allowedDomains |-> {}],
    [followExternal |-> FALSE, allowedDomains |-> {ExternalHost}],
    [followExternal |-> TRUE, allowedDomains |-> {ExternalHost}] }

WithPolicy(config, policy) ==
  [config EXCEPT !.followExternal = policy.followExternal,
                 !.allowedDomains = policy.allowedDomains]

\* maxDepth and maxPages of a job started after another one
LaterDepths == {0, 1}
LaterPages == {1, 2}

\* The first job of a run takes any configuration with the default domain
\* policy, or crawls from the root page under another policy; a later job
\* crawls from the root page, one page at a time
Configs(jobId) ==
  IF jobId = 1
  THEN { Config(jobId, s, d, p, FALSE, c) :
           s \in SeedChoices, d \in 0..MaxDepthBound, p \in 1..MaxPagesBound,
           c \in ConcurrencyChoices }
       \cup
       { WithPolicy(Config(jobId, <<RootUrl>>, d, p, FALSE, 2), policy) :
           d \in 0..MaxDepthBound, p \in 1..MaxPagesBound,
           policy \in DomainPolicies }
  ELSE { Config(jobId, <<RootUrl>>, d, p, FALSE, 1) :
           d \in LaterDepths, p \in LaterPages }

\* Job ids of the start messages of one run, in order (the extension derives a
\* fresh id, docpilot-<timestamp>, for every start)
JobIds == {1, 2}

\* Every normalized URL a job of the model can meet
Pages == {RootUrl, PageA, PageB, PageX, PageQ}

VARIABLES
  jobState,     \* IngestionWorker.jobState: Null or a JobState record
  tasks,        \* page tasks in flight (dispatched by a PQueue, suspended at an await)
  timers,       \* pending setTimeout callbacks of checkJobCompletion
  jobLog,       \* port: per job id, the job-status messages posted, in order
  pageLog,      \* port: per job id and URL, the page-progress and page-result
                \* messages posted, in order
  workerErrors, \* port: the worker-error messages posted
  index,        \* pages whose chunks were added to the vector store
  started,      \* start messages delivered so far
  handling,     \* the port event whose handler ran in the latest step
  cache,        \* RetrievalEngine.cache: its entries in insertion order
  now,          \* Date.now(), in milliseconds since the engine was created
  calls,        \* intelligentRetrieve calls suspended after a cache miss
  callsMade,    \* intelligentRetrieve calls made so far
  lastSeen,     \* what the engine's callers saw last: a result returned or a
                \* clearCache call
  vectors,      \* VectorStore.vectors: the stored documents in insertion order
  queries,      \* per query id, the handleQuery call and its intelligentRetrieve
  queryLog,     \* port: per query id, the query-status, result and worker-error
                \* messages posted, in order
  asked,        \* query messages delivered so far
  statsLog,     \* port: the cache-stats messages posted, in order
  lastCall,     \* the latest call of a VectorStore method, with what it returned
  promises      \* WorkerManager: per query() call, the promise it returned

\* The variables of the retrieval engine's result cache
cacheVars == <<cache, now, calls, callsMade, lastSeen>>

\* The variables of the query handler and the vector store
queryVars == <<vectors, queries, queryLog, asked, statsLog, lastCall, promises>>

vars ==
  <<jobState, tasks, timers, jobLog, pageLog, workerErrors, index, started,
    handling, cache, now, calls, callsMade, lastSeen, vectors, queries,
    queryLog, asked, statsLog, lastCall, promises>>

\* What the port delivers: a control message (jobId 0 stands for a cancel
\* without jobId), its close event, or nothing when the step is a page task
\* or a timer
PortEvent(type, jobId) == [type |-> type, jobId |-> jobId]
NoMessage == PortEvent("none", 0)

(***************************************************************************)
(* Messages posted on the port                                             *)
(***************************************************************************)
JobStatusMsg(status, jobId, processed, discovered, error) ==
  [type |-> "job-status", status |-> status, jobId |-> jobId,
   processedPages |-> processed, discoveredPages |-> discovered, error |-> error]

PageProgressMsg(jobId, url, depth, status, reason) ==
  [type |-> "page-progress", status |-> status, jobId |-> jobId,
   url |-> url, depth |-> depth, reason |-> reason]

PageResultMsg(jobId, url, depth) ==
  [type |-> "page-result", jobId |-> jobId, url |-> url, depth |-> depth]

WorkerErrorMsg(url) ==
  [type |-> "worker-error", jobId |-> 0, url |-> url]

(***************************************************************************)
(* The worker's mutable state threaded through one synchronous handler:    *)
(* js (jobState), tasks, timers, msgs.                                     *)
(***************************************************************************)
World(js, ts, tm, ms) == [js |-> js, tasks |-> ts, timers |-> tm, msgs |-> ms]

Emit(W, m) == [W EXCEPT !.msgs = Append(@, m)]

\* new PQueue({ concurrency: config.concurrency ?? DEFAULT_CONCURRENCY })
Concurrency(config) ==
  IF config.concurrency = 0 THEN DEFAULT_CONCURRENCY ELSE config.concurrency

\* queue.pending of the PQueue created for job qid
Pending(ts, qid) == Cardinality({t \in ts : t.queue = qid})

\* isDomainAllowed letting every host through
isDomainAllowed_AllowAll(hostname, js) == TRUE

\* isDomainAllowed
isDomainAllowed(hostname, js) ==
  IF js.config.followExternal THEN TRUE ELSE hostname \in js.hostAllowList

\* First synchronous segment of processUrl, run when the queue dispatches the
\* task: returns at once without a job, else emits 'fetching' and suspends on
\* fetchAndParse with the job's config captured.
ProcessUrlBegin(W, qid, url, depth) ==
  IF W.js = Null \/ W.js.cancelled THEN W
  ELSE LET config == W.js.config
           W1 == Emit(W, PageProgressMsg(config.jobId, url, depth, "fetching", ""))
       IN [W1 EXCEPT !.tasks = @ \cup
             {[queue |-> qid, config |-> config, url |-> url, depth |-> depth,
               pc |-> "fetch"]}]

\* queue.add(task): dispatched at once while fewer than `concurrency` tasks are
\* pending, else appended to the waiting list
QueueAdd(W, url, depth) ==
  LET qid == W.js.config.jobId IN
  IF Pending(W.tasks, qid) < Concurrency(W.js.config)
  THEN ProcessUrlBegin(W, qid, url, depth)
  ELSE [W EXCEPT !.js.queue = Append(@, [url |-> url, depth |-> depth])]

\* enqueueLink without its page-limit drop rule
enqueueLink_NoPageLimit(W, href, depth) ==
  IF W.js = Null \/ W.js.cancelled THEN W
  ELSE LET normalized == normalizeUrl(href)
           js == W.js
           config == js.config
       IN IF normalized = Null THEN W
          ELSE IF normalized \in js.visited THEN W
          ELSE IF depth > config.maxDepth THEN W
          ELSE IF safeHostname(normalized) = NoHost
                  \/ ~isDomainAllowed(safeHostname(normalized), js) THEN W
          ELSE LET W1 == [W EXCEPT !.js.visited = @ \cup {normalized},
                                   !.js.discoveredPages = @ + 1]
                   W2 == Emit(W1, PageProgressMsg(config.jobId, normalized, depth,
                                                  "queued", ""))
               IN QueueAdd(W2, normalized, depth)

\* enqueueLink without its already-visited drop rule
enqueueLink_NoVisitedCheck(W, href, depth) ==
  IF W.js = Null \/ W.js.cancelled THEN W
  ELSE LET normalized == normalizeUrl(href)
           js == W.js
           config == js.config
       IN IF normalized = Null THEN W
          ELSE IF depth > config.maxDepth THEN W
          ELSE IF js.processedPages >= config.maxPages THEN W
          ELSE IF safeHostname(normalized) = NoHost
                  \/ ~isDomainAllowed(safeHostname(normalized), js) THEN W
          ELSE LET W1 == [W EXCEPT !.js.visited = @ \cup {normalized},
                                   !.js.discoveredPages = @ + 1]
                   W2 == Emit(W1, PageProgressMsg(config.jobId, normalized, depth,
                                                  "queued", ""))
               IN QueueAdd(W2, normalized, depth)

\* enqueueLink
enqueueLink(W, href, depth) ==
  IF W.js = Null \/ W.js.cancelled THEN W
  ELSE LET normalized == normalizeUrl(href)
           js == W.js
           config == js.config
       IN IF normalized = Null THEN W
          ELSE IF normalized \in js.visited THEN W
          ELSE IF depth > config.maxDepth THEN W
          ELSE IF js.processedPages >= config.maxPages THEN W
          ELSE IF safeHostname(normalized) = NoHost
                  \/ ~isDomainAllowed(safeHostname(normalized), js) THEN W
          ELSE LET W1 == [W EXCEPT !.js.visited = @ \cup {normalized},
                                   !.js.discoveredPages = @ + 1]
                   W2 == Emit(W1, PageProgressMsg(config.jobId, normalized, depth,
                                                  "queued", ""))
               IN QueueAdd(W2, normalized, depth)

\* links.forEach((href) => this.enqueueLink({ href, depth }))
RECURSIVE EnqueueAll(_, _, _)
EnqueueAll(W, hrefs, depth) ==
  IF hrefs = <<>> THEN W
  ELSE EnqueueAll(enqueueLink(W, Head(hrefs), depth), Tail(hrefs), depth)

\* checkJobCompletion: arms the settle-delay timer while a job is active
checkJobCompletion(W) ==
  IF W.js = Null \/ W.js.cancelled THEN W
  ELSE [W EXCEPT !.timers = @ + 1]

\* A task of queue qid has settled: the queue dispatches its next waiting task
\* (the waiting list lives in the job state that owns the queue).
RECURSIVE QueueNext(_, _)
QueueNext(W, qid) ==
  IF W.js = Null THEN W
  ELSE IF W.js.config.jobId # qid THEN W
  ELSE IF W.js.queue = <<>> THEN W
  ELSE IF Pending(W.tasks, qid) >= Concurrency(W.js.config) THEN W
  ELSE LET next == Head(W.js.queue)
           W1 == [W EXCEPT !.js.queue = Tail(@)]
           W2 == ProcessUrlBegin(W1, qid, next.url, next.depth)
       IN IF W2.tasks = W1.tasks THEN QueueNext(W2, qid) ELSE W2

\* The task leaves its queue's pending count, then the queue moves on
TaskSettled(W, t) ==
  QueueNext([W EXCEPT !.tasks = @ \ {t}], t.queue)

\* Before any intelligentRetrieve or clearCache call
NothingSeen == [type |-> "none"]

\* Query ids of the query messages of one run, in order (handleQuery draws a
\* fresh randomUUID for every query)
QueryIds == {1, 2}

\* Before the query message of an id is delivered
NoQuery == [pc |-> "none"]

\* WorkerManager.query was not called: no promise, no listener
NoPromises == [id \in QueryIds |-> [state |-> "none"]]

\* Before any call of a VectorStore method
NoCall == [op |-> "none"]

\* No query was asked and nothing is stored
QueryInit ==
  /\ vectors = <<>>
  /\ queries = [id \in QueryIds |-> NoQuery]
  /\ queryLog = [id \in QueryIds |-> <<>>]
  /\ asked = 0
  /\ statsLog = <<>>
  /\ promises = NoPromises
  /\ lastCall = NoCall

Init ==
  /\ jobState = Null
  /\ tasks = {}
  /\ timers = 0
  /\ jobLog = [j \in JobIds |-> <<>>]
  /\ pageLog = [k \in JobIds \X Pages |-> <<>>]
  /\ workerErrors = {}
  /\ index = {}
  /\ started = 0
  /\ handling = NoMessage
  /\ cache = <<>>
  /\ now = 0
  /\ calls = {}
  /\ callsMade = 0
  /\ lastSeen = NothingSeen
  /\ QueryInit

(***************************************************************************)
(* Handlers                                                                *)
(***************************************************************************)
\* The host allow-list built by startJob
HostAllowList(config) ==
  (IF config.allowedDomains # {}
   THEN config.allowedDomains
   ELSE {safeHostname(config.seedUrls[i]) : i \in DOMAIN config.seedUrls})
  \ {NoHost}

\* startJob without its job_already_running guard: the running job is replaced
startJob_NoGuard(W, config) ==
  LET fresh == [config |-> config, queue |-> <<>>, visited |-> {},
                processedPages |-> 0, discoveredPages |-> 0,
                cancelled |-> FALSE, hostAllowList |-> HostAllowList(config)]
      W1 == Emit([W EXCEPT !.js = fresh],
                 JobStatusMsg("running", config.jobId, 0, 0, ""))
  IN EnqueueAll(W1, config.seedUrls, 0)

\* startJob
startJob(W, config) ==
  IF W.js # Null /\ ~W.js.cancelled
  THEN Emit(W, JobStatusMsg("error", config.jobId, W.js.processedPages,
                            W.js.discoveredPages, "job_already_running"))
  ELSE LET fresh == [config |-> config, queue |-> <<>>, visited |-> {},
                     processedPages |-> 0, discoveredPages |-> 0,
                     cancelled |-> FALSE, hostAllowList |-> HostAllowList(config)]
           W1 == Emit([W EXCEPT !.js = fresh],
                      JobStatusMsg("running", config.jobId, 0, 0, ""))
       IN EnqueueAll(W1, config.seedUrls, 0)

\* cancelCurrentJob posting the status but keeping the job state and its queue
cancelCurrentJob_KeepState(W, reason, jobId) ==
  IF W.js = Null THEN W
  ELSE IF jobId # 0 /\ W.js.config.jobId # jobId THEN W
  ELSE Emit(W, JobStatusMsg("cancelled", W.js.config.jobId,
                            W.js.processedPages, W.js.discoveredPages, reason))

\* cancelCurrentJob cancelling whatever job is active
cancelCurrentJob_AnyJob(W, reason, jobId) ==
  IF W.js = Null THEN W
  ELSE LET W1 == [W EXCEPT !.js.cancelled = TRUE, !.js.queue = <<>>]
           W2 == Emit(W1, JobStatusMsg("cancelled", W1.js.config.jobId,
                                       W1.js.processedPages,
                                       W1.js.discoveredPages, reason))
       IN [W2 EXCEPT !.js = Null]

\* cancelCurrentJob(reason, jobId?); jobId 0 stands for an absent jobId
cancelCurrentJob(W, reason, jobId) ==
  IF W.js = Null THEN W
  ELSE IF jobId # 0 /\ W.js.config.jobId # jobId THEN W
  ELSE LET W1 == [W EXCEPT !.js.cancelled = TRUE, !.js.queue = <<>>]
           W2 == Emit(W1, JobStatusMsg("cancelled", W1.js.config.jobId,
                                       W1.js.processedPages,
                                       W1.js.discoveredPages, reason))
       IN [W2 EXCEPT !.js = Null]

\* A catch block that gives the job up on the first page failure
ProcessUrlCatch_AbortsJob(W, t, reason) ==
  LET W1 == Emit(W, PageProgressMsg(t.config.jobId, t.url, t.depth, "failed", reason))
  IN IF W1.js = Null THEN W1
     ELSE cancelCurrentJob([W1 EXCEPT !.js.processedPages = @ + 1], reason, 0)

\* The catch block of processUrl
ProcessUrlCatch(W, t, reason) ==
  LET W1 == Emit(W, PageProgressMsg(t.config.jobId, t.url, t.depth, "failed", reason))
  IN IF W1.js = Null THEN W1
     ELSE LET W2 == [W1 EXCEPT !.js.processedPages = @ + 1]
              W3 == Emit(W2, JobStatusMsg("running", t.config.jobId,
                                          W2.js.processedPages,
                                          W2.js.discoveredPages, ""))
          IN checkJobCompletion(W3)

\* processUrl resumed after `await this.fetchAndParse(url, config)`.
\* The task stays in W.tasks (at pc "embed") only on the "ok" outcome.
ProcessUrlFetched(W, t, outcome) ==
  IF outcome = "error" THEN ProcessUrlCatch(W, t, "http_error")
  ELSE IF outcome = "empty"
  THEN LET W1 == Emit(W, PageProgressMsg(t.config.jobId, t.url, t.depth,
                                         "skipped", "empty-content"))
       IN IF W1.js = Null
          THEN \* this.jobState.processedPages on null throws inside the try
               ProcessUrlCatch(W1, t, "TypeError")
          ELSE [W1 EXCEPT !.js.processedPages = @ + 1]
  ELSE LET W1 == Emit(W, PageProgressMsg(t.config.jobId, t.url, t.depth,
                                         "embedding", ""))
       IN [W1 EXCEPT !.tasks = (@ \ {t}) \cup {[t EXCEPT !.pc = "embed"]}]

\* processUrl as it handled the page limit before: it cancelled the job
\* with reason page-limit-reached
ProcessUrlIndexed_CancelAtLimit(W, t) ==
  LET config == t.config
      W1 == Emit(Emit(Emit(W,
              PageProgressMsg(config.jobId, t.url, t.depth, "indexed", "")),
              PageResultMsg(config.jobId, t.url, t.depth)),
              PageProgressMsg(config.jobId, t.url, t.depth, "parsed", ""))
  IN IF W1.js = Null THEN W1
     ELSE LET W2 == [W1 EXCEPT !.js.processedPages = @ + 1]
          IN IF W2.js.cancelled THEN W2
             ELSE IF W2.js.processedPages >= config.maxPages
             THEN cancelCurrentJob(W2, "page-limit-reached", config.jobId)
             ELSE EnqueueAll(W2, Links(t.url), t.depth + 1)

\* processUrl from the page-result emission to its end, after indexChunks
\* returned
ProcessUrlIndexed(W, t) ==
  LET config == t.config
      W1 == Emit(Emit(Emit(W,
              PageProgressMsg(config.jobId, t.url, t.depth, "indexed", "")),
              PageResultMsg(config.jobId, t.url, t.depth)),
              PageProgressMsg(config.jobId, t.url, t.depth, "parsed", ""))
  IN IF W1.js = Null THEN W1
     ELSE LET W2 == [W1 EXCEPT !.js.processedPages = @ + 1]
              W3 == Emit(W2, JobStatusMsg("running", config.jobId,
                                          W2.js.processedPages,
                                          W2.js.discoveredPages, ""))
          IN IF W3.js.cancelled THEN W3
             ELSE IF W3.js.processedPages >= config.maxPages
             THEN LET W4 == Emit(W3, JobStatusMsg("completed", config.jobId,
                                                  W3.js.processedPages,
                                                  W3.js.discoveredPages, ""))
                      W5 == [W4 EXCEPT !.js.cancelled = TRUE, !.js.queue = <<>>]
                  IN [W5 EXCEPT !.js = Null]
             ELSE checkJobCompletion(EnqueueAll(W3, Links(t.url), t.depth + 1))

\* processUrl resumed after `await this.retrievalEngine.indexChunks(...)`
ProcessUrlEmbedded(W, t, outcome) ==
  IF outcome = "error"
  THEN Emit(Emit(W, PageProgressMsg(t.config.jobId, t.url, t.depth, "failed",
                                    "Embedding failed")),
            WorkerErrorMsg(t.url))
  ELSE ProcessUrlIndexed(W, t)

\* The callback completing the job without looking at its queue
SettleTimeout_NoQueueCheck(W) ==
  LET W1 == [W EXCEPT !.timers = @ - 1]
  IN IF W1.js = Null \/ W1.js.cancelled THEN W1
     ELSE LET W2 == Emit(W1, JobStatusMsg("completed", W1.js.config.jobId,
                                          W1.js.processedPages,
                                          W1.js.discoveredPages, ""))
          IN [W2 EXCEPT !.js = Null]

\* The setTimeout callback of checkJobCompletion
SettleTimeout(W) ==
  LET W1 == [W EXCEPT !.timers = @ - 1]
  IN IF W1.js = Null \/ W1.js.cancelled THEN W1
     ELSE IF W1.js.queue = <<>> /\ Pending(W1.tasks, W1.js.config.jobId) = 0
     THEN LET W2 == Emit(W1, JobStatusMsg("completed", W1.js.config.jobId,
                                          W1.js.processedPages,
                                          W1.js.discoveredPages, ""))
          IN [W2 EXCEPT !.js = Null]
     ELSE W1

(***************************************************************************)
(* Actions: one per message handler, task continuation and timer callback  *)
(***************************************************************************)
Here == World(jobState, tasks, timers, <<>>)

\* port.postMessage for each message of a handler run, in order: the port is
\* kept as its per-job and per-page subsequences
RECURSIVE PostJobStatus(_, _)
PostJobStatus(log, msgs) ==
  IF msgs = <<>> THEN log
  ELSE LET m == Head(msgs)
       IN PostJobStatus(
            IF m.type = "job-status"
            THEN [log EXCEPT ![m.jobId] = Append(@, [status |-> m.status,
                    processedPages |-> m.processedPages,
                    discoveredPages |-> m.discoveredPages, error |-> m.error])]
            ELSE log,
            Tail(msgs))

RECURSIVE PostPage(_, _)
PostPage(log, msgs) ==
  IF msgs = <<>> THEN log
  ELSE LET m == Head(msgs)
       IN PostPage(
            IF m.type = "page-progress"
            THEN [log EXCEPT ![<<m.jobId, m.url>>] = Append(@, [status |-> m.status,
                    depth |-> m.depth, reason |-> m.reason])]
            ELSE IF m.type = "page-result"
            THEN [log EXCEPT ![<<m.jobId, m.url>>] = Append(@, [status |-> "page-result",
                    depth |-> m.depth, reason |-> ""])]
            ELSE log,
            Tail(msgs))

PostWorkerErrors(errs, msgs) ==
  errs \cup {msgs[i].url : i \in {k \in DOMAIN msgs : msgs[k].type = "worker-error"}}

Becomes(W) ==
  /\ jobState' = W.js
  /\ tasks' = W.tasks
  /\ timers' = W.timers
  /\ jobLog' = PostJobStatus(jobLog, W.msgs)
  /\ pageLog' = PostPage(pageLog, W.msgs)
  /\ workerErrors' = PostWorkerErrors(workerErrors, W.msgs)
  /\ UNCHANGED <<cacheVars, queryVars>>

\* The port has closed: no message is delivered any more, and the retrieval
\* engine is disposed
Closed == handling.type = "close"

\* A page task or timer step handles no port event
NoPortEvent == handling' = IF Closed THEN handling ELSE NoMessage

\* onMessage({type: 'start', payload: config})
Start ==
  /\ ~Closed
  /\ started + 1 \in JobIds
  /\ \E config \in Configs(started + 1) : Becomes(startJob(Here, config))
  /\ started' = started + 1
  /\ handling' = PortEvent("start", started + 1)
  /\ UNCHANGED index

\* onMessage({type: 'cancel', payload: {jobId}})
Cancel ==
  /\ ~Closed
  /\ \E jobId \in {0} \cup JobIds :
       /\ Becomes(cancelCurrentJob(Here, "cancelled-by-extension", jobId))
       /\ handling' = PortEvent("cancel", jobId)
  /\ UNCHANGED <<index, started>>

\* port.on('close'): cancelCurrentJob('worker-port-closed'), then
\* retrievalEngine.dispose()
PortClose ==
  /\ ~Closed
  /\ Becomes(cancelCurrentJob(Here, "worker-port-closed", 0))
  /\ handling' = PortEvent("close", 0)
  /\ UNCHANGED <<index, started>>

\* fetchAndParse settles for a task in flight.  Once the engine is disposed,
\* indexChunks rejects at once ('Retrieval engine not initialized') and the
\* page fails in the same turn.
FetchDone ==
  /\ \E t \in tasks, outcome \in FetchOutcomes :
       /\ t.pc = "fetch"
       /\ LET W == ProcessUrlFetched(Here, t, outcome)
              e == [t EXCEPT !.pc = "embed"]
          IN Becomes(IF outcome # "ok" THEN TaskSettled(W, t)
                     ELSE IF Closed
                     THEN TaskSettled(ProcessUrlEmbedded(W, e, "error"), e)
                     ELSE W)
  /\ NoPortEvent
  /\ UNCHANGED <<index, started>>

\* indexChunks settles for a task in flight
EmbedDone ==
  \E t \in tasks, outcome \in EmbedOutcomes :
    /\ t.pc = "embed"
    /\ index' = IF outcome = "ok"
                THEN index \cup {[jobId |-> t.config.jobId, url |-> t.url]}
                ELSE index
    /\ Becomes(TaskSettled(ProcessUrlEmbedded(Here, t, outcome), t))
    /\ NoPortEvent
    /\ UNCHANGED started

\* The settle-delay timer fires
TimerFire ==
  /\ timers > 0
  /\ Becomes(SettleTimeout(Here))
  /\ NoPortEvent
  /\ UNCHANGED <<index, started>>

Next == Start \/ Cancel \/ PortClose \/ FetchDone \/ EmbedDone \/ TimerFire

Spec == Init /\ [][Next]_vars

\* The page tasks and settle timers run whenever they can; start and cancel
\* messages arrive or not as the extension pleases
FairSpec ==
  Spec /\ WF_vars(FetchDone) /\ WF_vars(EmbedDone) /\ WF_vars(TimerFire)

(***************************************************************************)
(* Vocabulary of the properties                                            *)
(***************************************************************************)
Last(s) == s[Len(s)]

\* job-status `status` has been posted for job j
HasStatus(j, status) == \E i \in DOMAIN jobLog[j] : jobLog[j][i].status = status

\* a terminal job-status has been posted for job j
Terminated(j) == HasStatus(j, "completed") \/ HasStatus(j, "cancelled")

\* the job-status messages of job j posted by the step
NewJobStatus(j) == SubSeq(jobLog'[j], Len(jobLog[j]) + 1, Len(jobLog'[j]))

\* the page-progress and page-result messages of job j and page u posted by
\* the step
NewPageEvents(j, u) ==
  SubSeq(pageLog'[<<j, u>>], Len(pageLog[<<j, u>>]) + 1, Len(pageLog'[<<j, u>>]))

\* the step posts a message with this status
Posts(events, status) == \E i \in DOMAIN events : events[i].status = status

\* a job is running in the worker
Active == jobState # Null /\ ~jobState.cancelled

\* the step is the delivery of a start message
IsStart == started' = started + 1

(***************************************************************************)
(* C1: a start message that arrives while a job is active posts job-status *)
(* 'error' with error 'job_already_running' for the new job id and changes *)
(* nothing of the running job (config, visited, counters, queue, tasks);   *)
(* the rejected job is never started: it gets no other status and no page  *)
(* event.                                                                  *)
(***************************************************************************)
C1_StartWhileActiveRejected ==
  /\ [](\A j \in JobIds :
          HasStatus(j, "error") =>
            /\ Len(jobLog[j]) = 1
            /\ \A u \in Pages : pageLog[<<j, u>>] = <<>>
            /\ \A t \in tasks : t.queue # j /\ t.config.jobId # j)
  /\ [][(IsStart /\ Active) =>
          /\ jobState' = jobState
          /\ tasks' = tasks
          /\ timers' = timers
          /\ pageLog' = pageLog
          /\ index' = index
          /\ jobLog' = [jobLog EXCEPT ![started + 1] =
                          <<[status |-> "error",
                             processedPages |-> jobState.processedPages,
                             discoveredPages |-> jobState.discoveredPages,
                             error |-> "job_already_running"]>>]]_vars

\* a start was rejected while job 1 was crawling with a page in flight
C1_Witness ==
  /\ Active
  /\ jobState.config.jobId = 1
  /\ tasks # {}
  /\ HasStatus(2, "error")

(***************************************************************************)
(* C2: once job-status 'cancelled' has been posted for a job, no           *)
(* page-progress and no page-result message is posted for that job and     *)
(* none of its pages is added to the vector index.                         *)
(***************************************************************************)
C2_NoPageOutputAfterCancel ==
  [][\A j \in JobIds :
       HasStatus(j, "cancelled") =>
         /\ \A u \in Pages : pageLog'[<<j, u>>] = pageLog[<<j, u>>]
         /\ {d \in index' : d.jobId = j} = {d \in index : d.jobId = j}]_vars

(***************************************************************************)
(* C3: 'completed' and 'cancelled' are terminal: once one of them has been *)
(* posted for a job id, no further job-status message carries that job id  *)
(* (so at most one terminal status per job).                               *)
(***************************************************************************)
C3_TerminalStatusIsLast ==
  [][\A j \in JobIds : Terminated(j) => jobLog'[j] = jobLog[j]]_vars

(***************************************************************************)
(* C4: a job that is running with no queued and no in-flight page task     *)
(* eventually gets job-status 'completed', unless it is cancelled: under   *)
(* FairSpec every fetch, embedding and timer that can finish does.         *)
(***************************************************************************)
Quiescent(j) ==
  /\ Active
  /\ jobState.config.jobId = j
  /\ jobState.queue = <<>>
  /\ Pending(tasks, j) = 0

C4_QuiescentJobCompletes ==
  \A j \in JobIds :
    Quiescent(j) ~> (HasStatus(j, "completed") \/ HasStatus(j, "cancelled"))

(***************************************************************************)
(* C5: the settle-delay callback of checkJobCompletion posts 'completed'   *)
(* only for the active job and only when that job's queue has no waiting   *)
(* and no in-flight task, so links a finishing page has just enqueued keep *)
(* the job from completing while they are pending.                         *)
(***************************************************************************)
C5_CompletionOnlyWhenQuiescent ==
  [][\A j \in JobIds :
       (timers' < timers /\ Posts(NewJobStatus(j), "completed")) =>
         Quiescent(j)]_vars

\* job 1 completed through the timer: its root page was parsed and enqueued
\* page A at depth 1, which then failed, so the page limit never completed it
C5_Witness ==
  /\ started = 1
  /\ jobLog[1] # <<>>
  /\ Last(jobLog[1]).status = "completed"
  /\ Posts(pageLog[<<1, RootUrl>>], "parsed")
  /\ pageLog[<<1, PageA>>] # <<>>
  /\ pageLog[<<1, PageA>>][1].depth = 1
  /\ Posts(pageLog[<<1, PageA>>], "failed")

(***************************************************************************)
(* C8: in every reachable state the active job's processedPages is at most *)
(* its maxPages.                                                           *)
(***************************************************************************)
C8_ProcessedWithinLimit ==
  jobState # Null => jobState.processedPages <= jobState.config.maxPages

(***************************************************************************)
(* C9: a step that leaves the active job with processedPages >= maxPages   *)
(* discovers nothing for it: discoveredPages and the visited set are       *)
(* unchanged, no 'queued' event is posted for the job, nothing is appended *)
(* to its queue and every task the step dispatches was already waiting in  *)
(* the queue.  (A handler increments processedPages before it calls        *)
(* enqueueLink, so this covers every enqueueLink call made at the limit.)  *)
(***************************************************************************)
C9_NoDiscoveryAtPageLimit ==
  [][(/\ jobState # Null
      /\ jobState' # Null
      /\ jobState'.config = jobState.config
      /\ jobState'.processedPages >= jobState.config.maxPages) =>
        LET j == jobState.config.jobId IN
        /\ jobState'.discoveredPages = jobState.discoveredPages
        /\ jobState'.visited = jobState.visited
        /\ \A u \in Pages : ~Posts(NewPageEvents(j, u), "queued")
        /\ Len(jobState'.queue) <= Len(jobState.queue)
        /\ \A t \in tasks' :
             (t.queue = j /\ ~\E o \in tasks : o.queue = j /\ o.url = t.url) =>
               \E i \in DOMAIN jobState.queue : jobState.queue[i].url = t.url]_vars

\* enqueueLink was called at the limit: job 2 (maxPages 1, maxDepth 1) has its
\* own root page still in flight and processedPages 1, counted when the root
\* page of job 1 was parsed late; that page's link to page A was dropped
C9_Witness ==
  /\ Active
  /\ jobState.config.jobId = 2
  /\ jobState.config.maxPages = 1
  /\ jobState.config.maxDepth = 1
  /\ jobState.processedPages = 1
  /\ Last(pageLog[<<2, RootUrl>>]).status = "fetching"
  /\ pageLog[<<1, RootUrl>>] # <<>>
  /\ Last(pageLog[<<1, RootUrl>>]).status = "parsed"
  /\ PageA \notin jobState.visited

\* the step posts the 'parsed' event of the page of task t
Parses(t) ==
  t.pc = "embed" /\ Posts(NewPageEvents(t.config.jobId, t.url), "parsed")

\* the step posts a 'queued' event
PostsQueued ==
  \E j \in JobIds, u \in Pages : Posts(NewPageEvents(j, u), "queued")

(***************************************************************************)
(* C6: when a successfully parsed page brings the active job's             *)
(* processedPages to its maxPages, the step posts job-status 'completed'   *)
(* (and no 'cancelled') for that job, enqueues no link and releases the    *)
(* job state with its queue.                                               *)
(***************************************************************************)
C6_PageLimitCompletesJob ==
  [][\A t \in tasks :
       (/\ Parses(t)
        /\ Active
        /\ jobState.processedPages + 1 = jobState.config.maxPages) =>
          /\ Posts(NewJobStatus(jobState.config.jobId), "completed")
          /\ ~Posts(NewJobStatus(jobState.config.jobId), "cancelled")
          /\ ~PostsQueued
          /\ jobState' = Null]_vars

C10_DepthLimit ==
  /\ [](/\ \A t \in tasks : t.depth <= t.config.maxDepth
        /\ jobState # Null =>
             \A i \in DOMAIN jobState.queue :
               jobState.queue[i].depth <= jobState.config.maxDepth)
  /\ [][\A t \in tasks :
          (Parses(t) /\ t.depth = t.config.maxDepth /\ jobState # Null) =>
             /\ ~PostsQueued
             /\ \/ /\ jobState' # Null
                   /\ jobState'.discoveredPages = jobState.discoveredPages
                   /\ jobState'.processedPages = jobState.processedPages + 1
                \/ /\ jobState' = Null
                   /\ Posts(NewJobStatus(t.config.jobId), "completed")
                   /\ Last(jobLog'[t.config.jobId]).processedPages =
                        jobState.processedPages + 1]_vars

(***************************************************************************)
(* C11: while a job with followExternal = false is active, every URL in    *)
(* its visited set, in its queue or in flight for it has a host in the     *)
(* job's allow-list (allowedDomains, or the seed hosts when that is        *)
(* empty), discoveredPages counts exactly the visited URLs and no 'queued' *)
(* event is posted for a URL of another host.  With followExternal = true  *)
(* every seed that is a URL is queued by the start, and every link of a    *)
(* parsed page that is below the depth and page limits is visited after    *)
(* the step and, unless visited before, gets a 'queued' event, whatever    *)
(* its host.                                                               *)
(***************************************************************************)
C11_DomainPolicy ==
  /\ [](Active =>
          /\ jobState.discoveredPages = Cardinality(jobState.visited)
          /\ ~jobState.config.followExternal =>
                /\ \A u \in jobState.visited : u.host \in jobState.hostAllowList
                /\ \A i \in DOMAIN jobState.queue :
                     jobState.queue[i].url.host \in jobState.hostAllowList
                /\ \A t \in tasks :
                     t.queue = jobState.config.jobId =>
                       t.url.host \in jobState.hostAllowList)
  /\ [](Active => jobState.hostAllowList = HostAllowList(jobState.config))
  /\ [][\A u \in Pages :
          (/\ jobState' # Null
           /\ ~jobState'.config.followExternal
           /\ u.host \notin HostAllowList(jobState'.config)) =>
             ~Posts(NewPageEvents(jobState'.config.jobId, u), "queued")]_vars
  /\ [][(IsStart /\ ~Active /\ jobState'.config.followExternal) =>
          \A i \in DOMAIN jobState'.config.seedUrls :
            LET n == normalizeUrl(jobState'.config.seedUrls[i]) IN
            n # Null =>
              /\ n \in jobState'.visited
              /\ Posts(NewPageEvents(jobState'.config.jobId, n), "queued")]_vars
  /\ [][\A t \in tasks :
          (/\ Parses(t)
           /\ jobState' # Null
           /\ jobState'.config.followExternal
           /\ t.depth + 1 <= jobState'.config.maxDepth
           /\ jobState'.processedPages < jobState'.config.maxPages) =>
             \A i \in DOMAIN Links(t.url) :
               LET l == Links(t.url)[i] IN
               /\ l \in jobState'.visited
               /\ l \in jobState.visited
                    \/ Posts(NewPageEvents(jobState'.config.jobId, l), "queued")]_vars

\* job 1 followed every link and queued the page of the external host; job 2,
\* which does not, parsed the same root page and queued page A only
C11_Witness ==
  /\ Posts(pageLog[<<1, PageX>>], "queued")
  /\ Active
  /\ jobState.config.jobId = 2
  /\ ~jobState.config.followExternal
  /\ Posts(pageLog[<<2, RootUrl>>], "parsed")
  /\ PageA \in jobState.visited
  /\ PageX \notin jobState.visited
  /\ pageLog[<<2, PageX>>] = <<>>

\* how many messages of this status the events hold
Count(events, status) ==
  Cardinality({i \in DOMAIN events : events[i].status = status})

(***************************************************************************)
(* C12: for every job and normalized URL at most one 'queued' event is     *)
(* posted and the URL is dispatched at most once ('fetching'); the active  *)
(* job's queue holds a URL at most once, and never a URL that is in flight *)
(* for it; only visited URLs are queued or in flight.                      *)
(***************************************************************************)
C12_QueuedOnce ==
  /\ \A j \in JobIds, u \in Pages :
       /\ Count(pageLog[<<j, u>>], "queued") <= 1
       /\ Count(pageLog[<<j, u>>], "fetching") <= 1
  /\ \A t1, t2 \in tasks :
       (t1.queue = t2.queue /\ t1.url = t2.url) => t1 = t2
  /\ Active =>
       /\ \A i, k \in DOMAIN jobState.queue :
            jobState.queue[i].url = jobState.queue[k].url => i = k
       /\ \A i \in DOMAIN jobState.queue :
            /\ jobState.queue[i].url \in jobState.visited
            /\ \A t \in tasks :
                 t.queue = jobState.config.jobId => t.url # jobState.queue[i].url
       /\ \A t \in tasks :
            t.queue = jobState.config.jobId => t.url \in jobState.visited

\* the root page was parsed, and its link to page A dropped, while page A, a
\* seed queued once, was in flight
C12_Witness ==
  /\ Active
  /\ jobState.config.seedUrls = <<RootWithHash, PageA>>
  /\ jobState.config.maxDepth = 1
  /\ Posts(pageLog[<<1, RootUrl>>], "parsed")
  /\ \E t \in tasks : t.queue = 1 /\ t.url = PageA
  /\ Count(pageLog[<<1, PageA>>], "queued") = 1

\* everything of the worker but the record of the port event handled
workerVars ==
  <<jobState, tasks, timers, jobLog, pageLog, workerErrors, index, started>>

(***************************************************************************)
(* C13: a cancel message delivered while no job is held, or carrying a     *)
(* jobId other than the active job's, changes nothing: no message is       *)
(* posted, and the job state (cancelled flag, visited set, counters,       *)
(* queue), the tasks in flight and the timers stay as they are.            *)
(***************************************************************************)
C13_CancelNoOp ==
  [][(/\ handling'.type = "cancel"
      /\ \/ jobState = Null
         \/ handling'.jobId # 0 /\ handling'.jobId # jobState.config.jobId) =>
        UNCHANGED workerVars]_vars

\* a cancel naming job 2 was delivered while job 1 was crawling with a page in
\* flight, and job 1 goes on
C13_Witness ==
  /\ handling = PortEvent("cancel", 2)
  /\ Active
  /\ jobState.config.jobId = 1
  /\ tasks # {}
  /\ Last(jobLog[1]).status = "running"

\* the step delivers a cancel message that matches the active job or carries
\* no jobId, or the close of the port, while a job is held
CancelsActiveJob ==
  /\ jobState # Null
  /\ \/ handling'.type = "close"
     \/ /\ handling'.type = "cancel"
        /\ handling'.jobId \in {0, jobState.config.jobId}

(***************************************************************************)
(* C14: a cancel that matches the active job or carries no jobId, and the  *)
(* close of the port, post exactly one job-status: 'cancelled' with the    *)
(* job's id, its counters of that moment and the reason                    *)
(* ('cancelled-by-extension', 'worker-port-closed'), post no page event,   *)
(* dispatch nothing and release the job state with its queue.  A job gets  *)
(* 'cancelled' at most once, no 'fetching' is posted for it afterwards,    *)
(* and a start message delivered while no job is held is accepted.         *)
(***************************************************************************)
C14_CancelReleasesJob ==
  /\ [][CancelsActiveJob =>
          /\ jobState' = Null
          /\ tasks' = tasks
          /\ timers' = timers
          /\ pageLog' = pageLog
          /\ jobLog' = [jobLog EXCEPT ![jobState.config.jobId] =
                          Append(@, [status |-> "cancelled",
                                     processedPages |-> jobState.processedPages,
                                     discoveredPages |-> jobState.discoveredPages,
                                     error |-> IF handling'.type = "close"
                                               THEN "worker-port-closed"
                                               ELSE "cancelled-by-extension"])]]_vars
  /\ [](\A j \in JobIds : Count(jobLog[j], "cancelled") <= 1)
  /\ [][\A j \in JobIds, u \in Pages :
          HasStatus(j, "cancelled") =>
            ~Posts(NewPageEvents(j, u), "fetching")]_vars
  /\ [][(IsStart /\ jobState = Null) =>
          /\ jobState' # Null
          /\ jobState'.config.jobId = started + 1
          /\ jobLog'[started + 1] # <<>>
          /\ jobLog'[started + 1][1].status = "running"]_vars

\* job 1 was cancelled by the extension while its seed page A was waiting in
\* the queue behind the root page; page A was never fetched, and job 2 was
\* accepted
C14_Witness ==
  /\ Count(jobLog[1], "cancelled") = 1
  /\ \E i \in DOMAIN jobLog[1] : jobLog[1][i].error = "cancelled-by-extension"
  /\ pageLog[<<1, PageA>>] # <<>>
  /\ Last(pageLog[<<1, PageA>>]).status = "queued"
  /\ tasks = {}
  /\ jobLog[2] # <<>>
  /\ jobLog[2][1].status = "running"

\* the step is the failure of the fetch of task t: its 'failed' event carries
\* the reason of the fetch error
FetchFails(t) ==
  /\ t.pc = "fetch"
  /\ \E i \in DOMAIN NewPageEvents(t.config.jobId, t.url) :
       /\ NewPageEvents(t.config.jobId, t.url)[i].status = "failed"
       /\ NewPageEvents(t.config.jobId, t.url)[i].reason = "http_error"

(***************************************************************************)
(* C15: when the fetch of a page fails, the step posts for that page       *)
(* exactly one event, 'failed' with a reason, and no terminal or error     *)
(* job-status; a job that is held stays held with its configuration,       *)
(* visited set and discoveredPages, its processedPages grows by exactly    *)
(* one, the settle timer is armed, and when the page belonged to the held  *)
(* job's queue the next waiting page of that queue is dispatched           *)
(* ('fetching').                                                           *)
(***************************************************************************)
C15_PageFailureKeepsJob ==
  [][\A t \in tasks :
       FetchFails(t) =>
         /\ Len(NewPageEvents(t.config.jobId, t.url)) = 1
         /\ NewPageEvents(t.config.jobId, t.url)[1].reason # ""
         /\ \A j \in JobIds :
              /\ ~Posts(NewJobStatus(j), "completed")
              /\ ~Posts(NewJobStatus(j), "cancelled")
              /\ ~Posts(NewJobStatus(j), "error")
         /\ t \notin tasks'
         /\ jobState = Null => jobState' = Null
         /\ jobState # Null =>
              /\ jobState' # Null
              /\ jobState'.config = jobState.config
              /\ ~jobState'.cancelled
              /\ jobState'.visited = jobState.visited
              /\ jobState'.discoveredPages = jobState.discoveredPages
              /\ jobState'.processedPages = jobState.processedPages + 1
              /\ timers' = timers + 1
              /\ (t.queue = jobState.config.jobId /\ jobState.queue # <<>>) =>
                   LET next == Head(jobState.queue) IN
                   /\ jobState'.queue = Tail(jobState.queue)
                   /\ \E n \in tasks' :
                        /\ n.url = next.url
                        /\ n.queue = t.queue
                        /\ n.pc = "fetch"
                   /\ Posts(NewPageEvents(t.queue, next.url), "fetching")]_vars

\* the fetch of the root page failed while seed page A waited behind it; page
\* A was then fetched and parsed, and the job was not cancelled
C15_Witness ==
  /\ started = 1
  /\ Count(pageLog[<<1, RootUrl>>], "failed") = 1
  /\ Posts(pageLog[<<1, PageA>>], "parsed")
  /\ pageLog[<<1, PageA>>][1].depth = 0
  /\ ~HasStatus(1, "cancelled")
  /\ HasStatus(1, "completed")

\* the statuses of the page-progress events among these events, in order
ProgressStatuses(events) ==
  LET progress == SelectSeq(events, LAMBDA e : e.status # "page-result")
  IN [i \in DOMAIN progress |-> progress[i].status]

FinalStatuses == {"parsed", "skipped", "failed"}

\* queued, fetching, optionally embedding then indexed, then one final event
PageEventOrders ==
  { <<"queued", "fetching", f>> : f \in FinalStatuses }
  \cup { <<"queued", "fetching", "embedding", "indexed", f>> : f \in FinalStatuses }

IsPrefix(s, t) == Len(s) <= Len(t) /\ SubSeq(t, 1, Len(s)) = s

(***************************************************************************)
(* C16: for every job and URL the page-progress events posted so far are   *)
(* the beginning of: queued, fetching, optionally embedding then indexed,  *)
(* and one of parsed, skipped, failed; so no URL gets two final events.    *)
(***************************************************************************)
C16_PageEventOrder ==
  \A j \in JobIds, u \in Pages :
    \E order \in PageEventOrders :
      IsPrefix(ProgressStatuses(pageLog[<<j, u>>]), order)

(***************************************************************************)
(* C17: while a job is active, the number of page tasks in flight in the   *)
(* worker is at most that job's concurrency (DEFAULT_CONCURRENCY when it   *)
(* is unset).                                                              *)
(***************************************************************************)
C17_TasksWithinConcurrency ==
  Active => Cardinality(tasks) <= Concurrency(jobState.config)

(***************************************************************************)
(* The retrieval engine's result cache (worker/src/retrievalEngine.ts):    *)
(* generateCacheKey, getCached, setCache, clearCache and the cache lookup  *)
(* and store of intelligentRetrieve.                                       *)
(***************************************************************************)
\* private readonly cacheMaxSize = 100
cacheMaxSize == 100
\* private readonly cacheTTL = 1000 * 60 * 30
cacheTTL == 1000 * 60 * 30

\* The clock is read in steps of the TTL, up to MaxTicks steps
TickMs == 1000 * 60 * 30
MaxTicks == 2
\* intelligentRetrieve calls of one run
MaxCalls == 3

\* Query texts, as sequences of characters
TextDoc == <<"d", "o", "c">>
TextDocRaw == <<" ", "D", "o", "c">>
TextFill == <<"f">>

\* String.prototype.toLowerCase, on the letters that occur
LowerChar(c) ==
  CASE c = "A" -> "a" [] c = "D" -> "d" [] c = "F" -> "f" [] OTHER -> c

toLowerCase(text) == [i \in DOMAIN text |-> LowerChar(text[i])]

\* String.prototype.trim
RECURSIVE trim(_)
trim(text) ==
  IF text = <<>> THEN text
  ELSE IF Head(text) = " " THEN trim(Tail(text))
  ELSE IF text[Len(text)] = " " THEN trim(SubSeq(text, 1, Len(text) - 1))
  ELSE text

\* RetrievalQuery: limit 0 stands for an absent limit, jobIds <<>> for an
\* absent or empty list
RetrievalQuery(text, limit, jobIds) ==
  [text |-> text, limit |-> limit, jobIds |-> jobIds]

\* String(n) of a number n >= 0: its decimal digits
DigitChars == <<"0", "1", "2", "3", "4", "5", "6", "7", "8", "9">>

RECURSIVE Digits(_)
Digits(n) ==
  IF n < 10 THEN <<DigitChars[n + 1]>>
  ELSE Digits(n \div 10) \o <<DigitChars[(n % 10) + 1]>>

\* Array.prototype.join(','), a job id being written as its number
RECURSIVE joinIds(_)
joinIds(jobIds) ==
  IF jobIds = <<>> THEN <<>>
  ELSE IF Len(jobIds) = 1 THEN Digits(jobIds[1])
  ELSE Digits(jobIds[1]) \o <<",">> \o joinIds(Tail(jobIds))

\* jobIds?.sort().join(',') || 'all'
AllJobs == <<"a", "l", "l">>

jobIdStr(jobIds) ==
  IF joinIds(SortParams(jobIds)) = <<>> THEN AllJobs
  ELSE joinIds(SortParams(jobIds))

\* generateCacheKey without the sort of the job ids
generateCacheKey_Unsorted(text, limit, jobIds) ==
  trim(toLowerCase(text)) \o <<":">> \o Digits(limit) \o <<":">>
    \o (IF joinIds(jobIds) = <<>> THEN AllJobs ELSE joinIds(jobIds))

\* generateCacheKey(query, limit, jobIds): the string
\* `${query.toLowerCase().trim()}:${limit}:${jobIdStr}`
generateCacheKey(text, limit, jobIds) ==
  trim(toLowerCase(text)) \o <<":">> \o Digits(limit) \o <<":">>
    \o jobIdStr(jobIds)

\* key.split(':')[0]
RECURSIVE beforeColon(_)
beforeColon(key) ==
  IF key = <<>> \/ Head(key) = ":" THEN <<>>
  ELSE <<Head(key)>> \o beforeColon(Tail(key))

\* The key intelligentRetrieve computes: generateCacheKey(query.text,
\* query.limit || 5, query.jobIds)
CacheKeyOf(query) ==
  generateCacheKey(query.text, IF query.limit = 0 THEN 5 ELSE query.limit,
                   query.jobIds)

\* The chunk payload of a result: which pipeline produced it, for which query
Payload(kind, query) == [kind |-> kind, query |-> query]

\* Results of the pipeline after a cache miss: the full pipeline's result
\* (stored), no candidates (returned at once), the plain retrieve result after
\* an exception in an LLM stage, or a rejection when retrieve throws again
PipelineOutcomes == {"ok", "empty", "fallback", "rejected"}

\* CacheEntry
CacheEntry(key, result, timestamp) ==
  [key |-> key, result |-> result, timestamp |-> timestamp, hits |-> 0]

\* Map.get: the position of the entry of this key, 0 when there is none
Find(entries, key) ==
  IF \E i \in DOMAIN entries : entries[i].key = key
  THEN CHOOSE i \in DOMAIN entries : entries[i].key = key
  ELSE 0

\* Map.delete
Delete(entries, i) ==
  SubSeq(entries, 1, i - 1) \o SubSeq(entries, i + 1, Len(entries))

\* getCached serving an entry whatever its age
getCached_NoExpiry(entries, key, time) ==
  LET i == Find(entries, key) IN
  IF i = 0 THEN [cache |-> entries, hit |-> FALSE, result |-> Payload("none", key)]
  ELSE [cache |-> [entries EXCEPT ![i].hits = @ + 1], hit |-> TRUE,
        result |-> entries[i].result]

\* getCached(key): the cache after the read, and the result or a miss
getCached(entries, key, time) ==
  LET i == Find(entries, key) IN
  IF i = 0 THEN [cache |-> entries, hit |-> FALSE, result |-> Payload("none", key)]
  ELSE IF time - entries[i].timestamp > cacheTTL
  THEN [cache |-> Delete(entries, i), hit |-> FALSE, result |-> Payload("none", key)]
  ELSE [cache |-> [entries EXCEPT ![i].hits = @ + 1], hit |-> TRUE,
        result |-> entries[i].result]

\* The eviction score of setCache
Score(entry) == entry.timestamp \div 1000 + entry.hits * 60000

\* setCache evicting the entry inserted first
LruIndex_First(entries) ==
  CHOOSE i \in DOMAIN entries : \A k \in DOMAIN entries : i <= k

\* The entry setCache evicts: the first one, in insertion order, whose score
\* is below the score of every entry before it and not above any after it
LruIndex(entries) ==
  CHOOSE i \in DOMAIN entries :
    /\ \A k \in DOMAIN entries : Score(entries[i]) <= Score(entries[k])
    /\ \A k \in 1..(i - 1) : Score(entries[k]) > Score(entries[i])

\* Map.set: a present key keeps its position
MapSet(entries, entry) ==
  LET i == Find(entries, entry.key) IN
  IF i = 0 THEN Append(entries, entry) ELSE [entries EXCEPT ![i] = entry]

\* setCache never evicting
setCache_NoEviction(entries, key, result, time) ==
  MapSet(entries, CacheEntry(key, result, time))

\* setCache(key, result)
setCache(entries, key, result, time) ==
  LET kept == IF Len(entries) >= cacheMaxSize
              THEN Delete(entries, LruIndex(entries))
              ELSE entries
  IN MapSet(kept, CacheEntry(key, result, time))

\* The queries of a run: two spellings of one question, and the question for
\* one job
Queries ==
  { RetrievalQuery(TextDoc, 0, <<>>), RetrievalQuery(TextDocRaw, 5, <<>>),
    RetrievalQuery(TextDoc, 0, <<1>>) }

\* A cache filled by earlier queries up to one entry below its capacity: the
\* same text asked with as many different limits, at the engine's start, the
\* first of them asked a second time
FillQuery(i) == RetrievalQuery(TextFill, 5 + i, <<>>)

WarmCache ==
  [i \in 1..(cacheMaxSize - 1) |->
     [CacheEntry(CacheKeyOf(FillQuery(i)), Payload("intelligent", FillQuery(i)), 0)
        EXCEPT !.hits = IF i = 1 THEN 1 ELSE 0]]

\* What the callers saw: the result of call id, and when it was computed
Returned(id, key, result, fromCache, computedAt) ==
  [type |-> "return", id |-> id, key |-> key, result |-> result,
   fromCache |-> fromCache, at |-> computedAt]

Cleared == [type |-> "clear"]

CacheInit ==
  /\ jobState = Null
  /\ tasks = {}
  /\ timers = 0
  /\ jobLog = [j \in JobIds |-> <<>>]
  /\ pageLog = [k \in JobIds \X Pages |-> <<>>]
  /\ workerErrors = {}
  /\ index = {}
  /\ started = 0
  /\ handling = NoMessage
  /\ cache \in {<<>>, WarmCache}
  /\ now = 0
  /\ calls = {}
  /\ callsMade = 0
  /\ lastSeen = NothingSeen
  /\ QueryInit

\* intelligentRetrieve(query) up to its first await: the cache lookup, and on
\* a hit the return of the cached result marked fromCache
Retrieve ==
  /\ callsMade < MaxCalls
  /\ callsMade' = callsMade + 1
  /\ \E query \in Queries :
       LET key == CacheKeyOf(query)
           got == getCached(cache, key, now)
       IN /\ cache' = got.cache
          /\ IF got.hit
             THEN /\ lastSeen' = Returned(callsMade + 1, key, got.result, "true",
                                           cache[Find(cache, key)].timestamp)
                  /\ calls' = calls
             ELSE /\ calls' = calls \cup {[id |-> callsMade + 1, query |-> query,
                                          key |-> key]}
                  /\ lastSeen' = lastSeen
  /\ UNCHANGED <<now, workerVars, handling, queryVars>>

\* The pipeline of a suspended call comes to its end
RetrieveDone ==
  /\ \E call \in calls, outcome \in PipelineOutcomes :
       /\ calls' = calls \ {call}
       /\ CASE outcome = "ok" ->
                 LET result == Payload("intelligent", call.query) IN
                 /\ cache' = setCache(cache, call.key, result, now)
                 /\ lastSeen' = Returned(call.id, call.key, result, "false", now)
            [] outcome = "empty" ->
                 /\ cache' = cache
                 /\ lastSeen' =
                      Returned(call.id, call.key, Payload("empty", call.query), "absent", now)
            [] outcome = "fallback" ->
                 /\ cache' = cache
                 /\ lastSeen' =
                      Returned(call.id, call.key, Payload("basic", call.query), "absent", now)
            [] OTHER ->
                 /\ cache' = cache
                 /\ lastSeen' =
                      Returned(call.id, call.key, Payload("rejected", call.query), "absent", now)
  /\ UNCHANGED <<now, callsMade, workerVars, handling, queryVars>>

\* clearCache()
ClearCache ==
  /\ cache' = <<>>
  /\ lastSeen' = Cleared
  /\ UNCHANGED <<now, calls, callsMade, workerVars, handling, queryVars>>

\* Time passes
Tick ==
  /\ now < MaxTicks * TickMs
  /\ now' = now + TickMs
  /\ UNCHANGED <<cache, calls, callsMade, lastSeen, workerVars, handling, queryVars>>

CacheNext == Retrieve \/ RetrieveDone \/ ClearCache \/ Tick

CacheSpec == CacheInit /\ [][CacheNext]_vars

\* the step is an intelligentRetrieve call
IsRetrieve == callsMade' = callsMade + 1

\* the latest call made has returned a result computed not longer ago than the
\* TTL, and the cache was not cleared since; no other call is under way
PreviousCallReturned ==
  /\ lastSeen.type = "return"
  /\ lastSeen.id = callsMade
  /\ lastSeen.result.kind # "rejected"
  /\ calls = {}
  /\ now - lastSeen.at <= cacheTTL

(***************************************************************************)
(* C18: an intelligentRetrieve call that follows a returned call of the    *)
(* same cache key within the TTL, with no call and no clearCache in        *)
(* between, does not run the pipeline again: it returns the first call's   *)
(* chunk payload with fromCache = true.                                    *)
(***************************************************************************)
C18_SecondCallServedFromCache ==
  [][(IsRetrieve /\ PreviousCallReturned) =>
       /\ \A call \in calls' : call.key # lastSeen.key
       /\ (lastSeen'.id = callsMade + 1 /\ lastSeen'.key = lastSeen.key) =>
            /\ lastSeen'.fromCache = "true"
            /\ lastSeen'.result = lastSeen.result]_vars

\* the key of the query of an intelligentRetrieve step
AskedKey ==
  IF calls' # calls THEN (CHOOSE call \in calls' \ calls : TRUE).key
  ELSE lastSeen'.key

\* the step returns a result marked fromCache to its caller
IsServedFromCache ==
  /\ lastSeen' # lastSeen
  /\ lastSeen'.type = "return"
  /\ lastSeen'.fromCache = "true"

(***************************************************************************)
(* C19: an intelligentRetrieve call that finds an entry older than the TTL *)
(* removes it, leaves the other entries alone and goes on to compute the   *)
(* result, returning nothing from the cache; a result marked fromCache is  *)
(* only ever returned by a call that found an entry not older than the     *)
(* TTL, and that call adds one to the hit counter of the entry and changes *)
(* neither its timestamp nor its result nor any other entry.               *)
(***************************************************************************)
C19_ExpiryAndHitCount ==
  [][/\ IsRetrieve =>
          LET i == Find(cache, AskedKey) IN
          (i # 0 /\ now - cache[i].timestamp > cacheTTL) =>
             /\ cache' = Delete(cache, i)
             /\ Find(cache', AskedKey) = 0
             /\ \E call \in calls' \ calls : call.key = AskedKey
             /\ lastSeen' = lastSeen
     /\ IsServedFromCache =>
          /\ IsRetrieve
          /\ calls' = calls
          /\ LET i == Find(cache, AskedKey) IN
             /\ i # 0
             /\ now - cache[i].timestamp <= cacheTTL
             /\ lastSeen'.result = cache[i].result
             /\ Len(cache') = Len(cache)
             /\ cache'[i].hits = cache[i].hits + 1
             /\ cache'[i].timestamp = cache[i].timestamp
             /\ cache'[i].key = cache[i].key
             /\ cache'[i].result = cache[i].result
             /\ \A k \in DOMAIN cache \ {i} : cache'[k] = cache[k]]_vars

\* a result was served from the cache, and a later call of the same key,
\* made when the entry was older than the TTL, removed the entry and is
\* computing the result
C19_Witness ==
  /\ lastSeen.type = "return"
  /\ lastSeen.fromCache = "true"
  /\ now - lastSeen.at > cacheTTL
  /\ \E call \in calls : call.key = lastSeen.key
  /\ Find(cache, lastSeen.key) = 0

\* the step stores a computed result in the cache and returns it
IsInsertion ==
  /\ lastSeen' # lastSeen
  /\ lastSeen'.type = "return"
  /\ lastSeen'.fromCache = "false"

\* the keys of a cache
KeysOf(entries) == {entries[i].key : i \in DOMAIN entries}

\* the keys the step removes from the cache
Evicted == KeysOf(cache) \ KeysOf(cache')

(***************************************************************************)
(* C20: the cache never holds more than cacheMaxSize (100) entries; a step *)
(* that stores a result removes at most one entry, and none when the cache *)
(* held fewer than cacheMaxSize entries before it.                         *)
(***************************************************************************)
C20_CacheBounded ==
  [][/\ Len(cache) <= cacheMaxSize
     /\ Len(cache') <= cacheMaxSize
     /\ IsInsertion =>
          /\ Find(cache', lastSeen'.key) # 0
          /\ Cardinality(Evicted) <= 1
          /\ Len(cache) < cacheMaxSize => Evicted = {}]_vars

\* a result was stored in a full cache: the cache is full again, and one of
\* the entries it started with is gone
C20_Witness ==
  /\ lastSeen.type = "return"
  /\ lastSeen.fromCache = "false"
  /\ Len(cache) = cacheMaxSize
  /\ Find(cache, lastSeen.key) # 0
  /\ \E i \in 1..(cacheMaxSize - 1) : Find(cache, CacheKeyOf(FillQuery(i))) = 0

(***************************************************************************)
(* The vector store (worker/src/vectorStore.ts).  A stored document is     *)
(* known by its id, its job and the cosine similarity of its vector to the *)
(* query vector of the run, in thousandths.                                *)
(***************************************************************************)
StoredVector(id, jobId, score, chars) ==
  [id |-> id, jobId |-> jobId, score |-> score, chars |-> chars]

\* Candidates without the job filter
CandidateVectors_All(stored, jobIds) == stored

\* jobIds.includes(v.document.jobId) over the stored vectors: all of them when
\* jobIds is absent or empty
CandidateVectors(stored, jobIds) ==
  IF jobIds # <<>>
  THEN SelectSeq(stored, LAMBDA v : \E i \in DOMAIN jobIds : jobIds[i] = v.jobId)
  ELSE stored

\* Array.prototype.sort((a, b) => b.score - a.score): a stable sort, by
\* insertion of each result behind the results that do not score less
RECURSIVE SortByScore(_)
SortByScore(results) ==
  IF results = <<>> THEN <<>>
  ELSE LET n == Len(results)
           sorted == SortByScore(SubSeq(results, 1, n - 1))
           x == results[n]
           before == {i \in DOMAIN sorted : sorted[i].score >= x.score}
           k == Cardinality(before)
       IN SubSeq(sorted, 1, k) \o <<x>> \o SubSeq(sorted, k + 1, Len(sorted))

\* Array.prototype.slice(0, limit)
Slice(s, limit) == SubSeq(s, 1, IF limit < Len(s) THEN limit ELSE Len(s))

\* VectorStore.search(queryVector, limit, jobIds)
search(stored, limit, jobIds) ==
  Slice(SortByScore(CandidateVectors(stored, jobIds)), limit)

\* clearJob emptying the store
clearJob_All(stored, jobId) == <<>>

\* VectorStore.clearJob(jobId)
clearJob(stored, jobId) == SelectSeq(stored, LAMBDA v : v.jobId # jobId)

\* VectorStore.addChunks(jobId, url, chunks, vectors)
addChunks(stored, jobId, chunks) ==
  stored \o [i \in DOMAIN chunks |->
               StoredVector(chunks[i].id, jobId, chunks[i].score, chunks[i].chars)]

(***************************************************************************)
(* The retrieval pipeline (worker/src/retrievalEngine.ts, llmPipelines.ts) *)
(* Scores and confidences are in thousandths.                              *)
(***************************************************************************)
\* undefined: an optional number left out of a result
Absent == -1

\* query.threshold || 0.1
DefaultThreshold == 100
\* DEFAULT_CONFIG.qaConfidenceThreshold
qaConfidenceThreshold == 100
\* context.trim().length < 20, text.trim().length < 50
MinContextChars == 20
MinSummaryChars == 50

\* query.limit || 10 of retrieve, query.limit || 5 of intelligentRetrieve
RetrieveLimit(query) == IF query.limit = 0 THEN 10 ELSE query.limit
ResultLimit(query) == IF query.limit = 0 THEN 5 ELSE query.limit

\* Math.max((query.limit || 5) * 4, 20)
initialLimit(query) ==
  IF ResultLimit(query) * 4 > 20 THEN ResultLimit(query) * 4 ELSE 20

\* RetrievalEngine.retrieve(query), when the embedding and the search succeed
retrieve(stored, query) ==
  SelectSeq(search(stored, RetrieveLimit(query), query.jobIds),
            LAMBDA r : r.score >= DefaultThreshold)

\* What the reranker model does with n texts: it scores them, best first in
\* some order, or it throws
Orders(n) == {f \in [1..n -> 1..n] : \A i, j \in 1..n : f[i] = f[j] => i = j}

RerankRaws(n) ==
  {[kind |-> "scores", order |-> f] : f \in Orders(n)}
    \cup {[kind |-> "throw", order |-> <<>>]}

\* LLMPipeline.rerank(query, texts): the model's scores sorted, or the original
\* order with the scores 1.0 - index * 0.01 when it throws
rerank(raw, n) ==
  IF raw.kind = "scores"
  THEN [i \in 1..n |-> [index |-> raw.order[i], score |-> 900 - 100 * (i - 1)]]
  ELSE [i \in 1..n |-> [index |-> i, score |-> 1000 - 10 * (i - 1)]]

\* rerankResults.slice(0, query.limit || 5).map(...)
topReranked(basic, ranked, query) ==
  LET top == Slice(ranked, ResultLimit(query)) IN
  [i \in DOMAIN top |-> [hit |-> basic[top[i].index], rerankScore |-> top[i].score]]

\* What the question-answering model does with one chunk: an answer with a
\* score, an exception, or no response before the timeout
AnswerRaws ==
  {[kind |-> "answer", score |-> c] : c \in {50, 100, 500}}
    \cup {[kind |-> "throw", score |-> 0], [kind |-> "timeout", score |-> 0]}

\* What the summarization model does with one chunk
SummaryRaws == {"summary", "empty", "throw", "timeout"}

\* LLMPipeline.extractAnswer after the model's response: the confidence of the
\* answer, Absent for null
extractAnswer(raw) ==
  IF raw.kind = "answer" /\ raw.score >= qaConfidenceThreshold
  THEN raw.score ELSE Absent

\* LLMPipeline.summarize after the model's response: is there a summary
summarize(raw) == raw = "summary"

\* One chunk of the top results while its answer and summary are computed
Work(top) ==
  [hit |-> top.hit, rerankScore |-> top.rerankScore,
   pc |-> IF top.hit.chars >= MinContextChars THEN "extract"
          ELSE IF top.hit.chars >= MinSummaryChars THEN "summarize"
          ELSE "done",
   extract |-> "none", summarize |-> "none",
   answerConfidence |-> Absent, summary |-> FALSE]

\* IntelligentChunkResult of the pipeline
IntelligentChunk(w) ==
  [chunkId |-> w.hit.id, score |-> w.hit.score, rerankScore |-> w.rerankScore,
   answer |-> w.answerConfidence # Absent,
   answerConfidence |-> w.answerConfidence,
   summary |-> w.summary, codeExamples |-> TRUE]

\* The chunk of the fallback: chunkId, url, headings, text and score only
FallbackChunk(r) ==
  [chunkId |-> r.id, score |-> r.score, rerankScore |-> Absent,
   answer |-> FALSE, answerConfidence |-> Absent,
   summary |-> FALSE, codeExamples |-> FALSE]

\* c.answerConfidence || 0
OrZero(x) == IF x = Absent THEN 0 ELSE x

\* The filter keeping, next to a good answer, only chunks that have an answer
filteredChunks_DropUnanswered(chunks) ==
  LET hasGoodAnswer ==
        \E i \in DOMAIN chunks : OrZero(chunks[i].answerConfidence) > 300
  IN IF hasGoodAnswer
     THEN SelectSeq(chunks, LAMBDA c : OrZero(c.answerConfidence) > 100)
     ELSE chunks

\* No filter on answer confidence
filteredChunks_KeepAll(chunks) == chunks

\* The filter on answer confidence
filteredChunks(chunks) ==
  LET hasGoodAnswer ==
        \E i \in DOMAIN chunks : OrZero(chunks[i].answerConfidence) > 300
  IN IF hasGoodAnswer
     THEN SelectSeq(chunks, LAMBDA c : OrZero(c.answerConfidence) = 0
                                         \/ c.answerConfidence > 100)
     ELSE chunks

\* IntelligentRetrievalResult; fromCache is "true", "false" or "absent"
IntelligentRetrievalResult(chunks, fromCache) ==
  [chunks |-> chunks, totalFound |-> Len(chunks), fromCache |-> fromCache]

(***************************************************************************)
(* The query handler (IngestionWorker.handleQuery) and the asynchronous    *)
(* steps of RetrievalEngine.intelligentRetrieve                            *)
(***************************************************************************)
\* The documents of a run: a long text, a text too short to be summarized,
\* and a text whose similarity to the query is below the threshold
Doc1 == StoredVector(1, 1, 900, 60)
Doc2 == StoredVector(2, 1, 800, 30)
Doc3 == StoredVector(3, 1, 50, 60)

\* What the crawl has stored when the queries are asked
Corpora == {<<>>, <<Doc1>>, <<Doc3, Doc2, Doc1>>}

\* QueryPayload: the query text is TextDoc in every message; limit 0 and
\* jobId 0 stand for absent ones.  The first query asks for one chunk or for
\* the default number, a later one for one chunk
QueryPayloads(id) ==
  {[limit |-> l, jobId |-> 0] : l \in IF id = 1 THEN {0, 1} ELSE {1}}

\* The RetrievalQuery handleQuery passes to intelligentRetrieve
QueryOf(payload) ==
  RetrievalQuery(TextDoc, IF payload.limit = 0 THEN 5 ELSE payload.limit,
                 IF payload.jobId # 0 THEN <<payload.jobId>> ELSE <<>>)

NoResult == IntelligentRetrievalResult(<<>>, "none")

\* A handleQuery call suspended in intelligentRetrieve, or ended
QueryState(query, pc) ==
  [pc |-> pc, query |-> query, key |-> CacheKeyOf(query), basic |-> <<>>,
   rerank |-> "none", work |-> <<>>, fellBack |-> FALSE, result |-> NoResult]

\* The messages handleQuery posts after intelligentRetrieve has returned, and
\* after it has thrown
CompletedEvents ==
  <<"retrieving", "scoring", "intelligent-query-result", "completed">>
FailedEvents == <<"failed", "worker-error">>

QueryInitial ==
  /\ jobState = Null
  /\ tasks = {}
  /\ timers = 0
  /\ jobLog = [j \in JobIds |-> <<>>]
  /\ pageLog = [k \in JobIds \X Pages |-> <<>>]
  /\ workerErrors = {}
  /\ index = {}
  /\ started = 0
  /\ handling = NoMessage
  /\ cache = <<>>
  /\ now = 0
  /\ calls = {}
  /\ callsMade = 0
  /\ lastSeen = NothingSeen
  /\ vectors \in Corpora
  /\ queries = [id \in QueryIds |-> NoQuery]
  /\ queryLog = [id \in QueryIds |-> <<>>]
  /\ asked = 0
  /\ statsLog = <<>>
  /\ promises = NoPromises
  /\ lastCall = NoCall

\* What the steps of a query leave alone
QueryFrame ==
  UNCHANGED <<workerVars, now, calls, callsMade, lastSeen, vectors, statsLog,
              lastCall, promises>>

\* intelligentRetrieve returns the result to handleQuery, which posts it
Returns(id, q, result) ==
  /\ queries' = [queries EXCEPT ![id] = [q EXCEPT !.pc = "returned",
                                                  !.result = result]]
  /\ queryLog' = [queryLog EXCEPT ![id] = @ \o CompletedEvents]

\* intelligentRetrieve throws, handleQuery posts the failure
Throws(id, q) ==
  /\ queries' = [queries EXCEPT ![id] = [q EXCEPT !.pc = "rejected"]]
  /\ queryLog' = [queryLog EXCEPT ![id] = @ \o FailedEvents]

\* The end of stage 3: when the answers and summaries of all chunks are there,
\* the filter, the store in the cache and the return
Enriched(id, q) ==
  IF \A i \in DOMAIN q.work : q.work[i].pc = "done"
  THEN LET chunks == filteredChunks([i \in DOMAIN q.work |-> IntelligentChunk(q.work[i])])
           result == IntelligentRetrievalResult(chunks, "false")
       IN /\ cache' = setCache(cache, q.key, result, now)
          /\ Returns(id, q, result)
  ELSE /\ cache' = cache
       /\ queries' = [queries EXCEPT ![id] = q]
       /\ queryLog' = queryLog

\* A query message: handleQuery up to the first suspension of
\* intelligentRetrieve, or to its end when the cache holds the result
Query ==
  /\ asked < Cardinality(QueryIds)
  /\ asked' = asked + 1
  /\ handling' = PortEvent("query", 0)
  /\ \E payload \in QueryPayloads(asked + 1) :
       LET id == asked + 1
           q == QueryState(QueryOf(payload), "retrieve")
           got == getCached(cache, q.key, now)
       IN /\ cache' = got.cache
          /\ IF got.hit
             THEN /\ queries' = [queries EXCEPT ![id] =
                       [q EXCEPT !.pc = "returned",
                                 !.result = [got.result EXCEPT !.fromCache = "true"]]]
                  /\ queryLog' = [queryLog EXCEPT ![id] = <<"started">> \o CompletedEvents]
             ELSE /\ queries' = [queries EXCEPT ![id] = q]
                  /\ queryLog' = [queryLog EXCEPT ![id] = <<"started">>]
  /\ QueryFrame

\* Stage 1: the retrieve call of the try block ends
RetrieveEnds ==
  /\ \E id \in QueryIds, ok \in BOOLEAN :
       LET q == queries[id] IN
       /\ q.pc = "retrieve"
       /\ IF ~ok
          THEN /\ queries' = [queries EXCEPT ![id] =
                    [q EXCEPT !.pc = "fallback", !.fellBack = TRUE]]
               /\ queryLog' = queryLog
          ELSE LET basic == retrieve(vectors, [q.query EXCEPT !.limit = initialLimit(q.query)])
               IN IF basic = <<>>
                  THEN Returns(id, q, IntelligentRetrievalResult(<<>>, "absent"))
                  ELSE /\ queries' = [queries EXCEPT ![id] =
                            [q EXCEPT !.pc = "rerank", !.basic = basic]]
                       /\ queryLog' = queryLog
  /\ handling' = NoMessage
  /\ UNCHANGED <<cache, asked>>
  /\ QueryFrame

\* Stage 2: the rerank call ends, with the model's order or, after an exception
\* of the model, the original one; stage 3 starts
RerankEnds ==
  /\ \E id \in QueryIds :
       LET q == queries[id] IN
       /\ q.pc = "rerank"
       /\ \E raw \in RerankRaws(Len(q.basic)) :
            LET top == topReranked(q.basic, rerank(raw, Len(q.basic)), q.query)
            IN Enriched(id, [q EXCEPT !.pc = "enrich", !.rerank = raw.kind,
                                      !.work = [i \in DOMAIN top |-> Work(top[i])]])
  /\ handling' = NoMessage
  /\ UNCHANGED asked
  /\ QueryFrame

\* Stage 2 when the reranker model never responds: nothing ends the call
RerankNeverEnds ==
  /\ \E id \in QueryIds :
       /\ queries[id].pc = "rerank"
       /\ queries' = [queries EXCEPT ![id].pc = "rerank-pending"]
  /\ handling' = NoMessage
  /\ UNCHANGED <<cache, queryLog, asked>>
  /\ QueryFrame

\* Stage 3: extractAnswer ends for one chunk, with the model's response, its
\* exception or the timeout
ExtractEnds ==
  /\ \E id \in QueryIds :
       LET q == queries[id] IN
       /\ q.pc = "enrich"
       /\ \E i \in DOMAIN q.work, raw \in AnswerRaws :
            /\ q.work[i].pc = "extract"
            /\ Enriched(id, [q EXCEPT !.work[i] =
                    [@ EXCEPT !.pc = IF q.work[i].hit.chars >= MinSummaryChars
                                     THEN "summarize" ELSE "done",
                              !.extract = raw.kind,
                              !.answerConfidence = extractAnswer(raw)]])
  /\ handling' = NoMessage
  /\ UNCHANGED asked
  /\ QueryFrame

\* Stage 3: summarize ends for one chunk
SummarizeEnds ==
  /\ \E id \in QueryIds :
       LET q == queries[id] IN
       /\ q.pc = "enrich"
       /\ \E i \in DOMAIN q.work, raw \in SummaryRaws :
            /\ q.work[i].pc = "summarize"
            /\ Enriched(id, [q EXCEPT !.work[i] =
                    [@ EXCEPT !.pc = "done", !.summarize = raw,
                              !.summary = summarize(raw)]])
  /\ handling' = NoMessage
  /\ UNCHANGED asked
  /\ QueryFrame

\* The retrieve call of the catch block ends
FallbackEnds ==
  /\ \E id \in QueryIds, ok \in BOOLEAN :
       LET q == queries[id] IN
       /\ q.pc = "fallback"
       /\ IF ok
          THEN LET basic == retrieve(vectors, q.query) IN
               Returns(id, q, IntelligentRetrievalResult(
                                [i \in DOMAIN basic |-> FallbackChunk(basic[i])], "absent"))
          ELSE Throws(id, q)
  /\ handling' = NoMessage
  /\ UNCHANGED <<cache, asked>>
  /\ QueryFrame

\* entries.sort((a, b) => b.hits - a.hits): a stable sort
RECURSIVE SortByHits(_)
SortByHits(entries) ==
  IF entries = <<>> THEN <<>>
  ELSE LET n == Len(entries)
           sorted == SortByHits(SubSeq(entries, 1, n - 1))
           x == entries[n]
           k == Cardinality({i \in DOMAIN sorted : sorted[i].hits >= x.hits})
       IN SubSeq(sorted, 1, k) \o <<x>> \o SubSeq(sorted, k + 1, Len(sorted))

\* RetrievalEngine.getCacheStats(): size, maxSize and the query, hits and age
\* (in seconds) of every entry, most hits first
getCacheStats(entries, time) ==
  [size |-> Len(entries), maxSize |-> cacheMaxSize,
   entries |-> SortByHits([i \in DOMAIN entries |->
                  [query |-> beforeColon(entries[i].key), hits |-> entries[i].hits,
                   age |-> (time - entries[i].timestamp) \div 1000]])]

\* isWorkerControlMessage(message)
isWorkerControlMessage(type) == type \in {"start", "cancel", "query"}

\* The cache-control messages of WorkerManager.clearCache and getCacheStats
CacheControls == {"clear-cache", "get-cache-stats"}

\* A cache-control message: onMessage, handleClearCache, handleGetCacheStats
CacheControl ==
  /\ \E type \in CacheControls :
       /\ handling' = PortEvent(type, 0)
       /\ IF ~isWorkerControlMessage(type)
          THEN UNCHANGED <<cache, statsLog>>
          ELSE IF type = "clear-cache"
          THEN cache' = <<>> /\ statsLog' = statsLog
          ELSE cache' = cache /\ statsLog' = Append(statsLog, getCacheStats(cache, now))
  /\ UNCHANGED <<workerVars, now, calls, callsMade, lastSeen, vectors, queries,
                 queryLog, asked, lastCall, promises>>

QueryNext ==
  \/ Query
  \/ RetrieveEnds
  \/ RerankEnds
  \/ RerankNeverEnds
  \/ ExtractEnds
  \/ SummarizeEnds
  \/ FallbackEnds
  \/ CacheControl

QuerySpec == QueryInitial /\ [][QueryNext]_vars

\* the rerank, answer-extraction or summarization model threw during the call
CapabilityThrew(q) ==
  \/ q.rerank = "throw"
  \/ \E i \in DOMAIN q.work :
       q.work[i].extract = "throw" \/ q.work[i].summarize = "throw"

\* the chunks of the plain retrieve(query) call, in the intelligent-result
\* schema without LLM fields
PlainChunks(q) ==
  LET basic == retrieve(vectors, q.query) IN
  [i \in DOMAIN basic |-> FallbackChunk(basic[i])]

\* the call of the query has ended
Ended(q) == q.pc \in {"returned", "rejected"}

(***************************************************************************)
(* C21: an intelligentRetrieve call during which the rerank, the           *)
(* answer-extraction or the summarization model threw does not fail, and   *)
(* returns the chunks of the plain retrieve(query) call: the same chunk    *)
(* ids and similarity scores in the same order, without LLM fields.        *)
(***************************************************************************)
C21_DegradesToPlainRetrieve ==
  \A id \in QueryIds :
    LET q == queries[id] IN
    (Ended(q) /\ CapabilityThrew(q)) =>
      /\ q.pc = "returned"
      /\ q.result.chunks = PlainChunks(q)

\* the messages of this type posted for a query, as a count
Posted(id, type) ==
  Cardinality({i \in DOMAIN queryLog[id] : queryLog[id][i] = type})

(***************************************************************************)
(* C22: when intelligentRetrieve has returned the plain retrieve result of *)
(* its catch block, a query-status 'failed' was posted for the query, and  *)
(* the result was posted all the same.                                     *)
(***************************************************************************)
C22_FallbackSurfacedAsFailed ==
  \A id \in QueryIds :
    LET q == queries[id] IN
    (q.pc = "returned" /\ q.fellBack) =>
      /\ Posted(id, "failed") > 0
      /\ Posted(id, "intelligent-query-result") > 0

\* how a sub-call fails: its model throws, or does not respond in time
Failures == {"throw", "timeout"}

\* the answers and summaries of all selected chunks of the call are there
AllDone(q) ==
  /\ q.pc # "none"
  /\ q.work # <<>>
  /\ \A i \in DOMAIN q.work : q.work[i].pc = "done"

\* the i-th selected chunk is among the returned chunks
InResult(q, i) ==
  \E k \in DOMAIN q.result.chunks : q.result.chunks[k].chunkId = q.work[i].hit.id

ResultChunk(q, i) ==
  q.result.chunks[CHOOSE k \in DOMAIN q.result.chunks :
                    q.result.chunks[k].chunkId = q.work[i].hit.id]

\* the confidence filter drops the i-th selected chunk for its own answer
DroppedForConfidence(q, i) ==
  /\ q.work[i].answerConfidence # Absent
  /\ q.work[i].answerConfidence <= 100
  /\ \E j \in DOMAIN q.work : q.work[j].answerConfidence > 300

\* the query is not failed, every returned chunk carries the fields its own
\* sub-calls produced, and after a rerank failure the selected chunks are the
\* first candidates in similarity order
FailureIsLocal(id, q) ==
  /\ q.pc = "returned"
  /\ Posted(id, "failed") = 0
  /\ Posted(id, "completed") = 1
  /\ \A i \in DOMAIN q.work :
       /\ q.work[i].extract \in Failures =>
            /\ InResult(q, i)
            /\ ~ResultChunk(q, i).answer
            /\ ResultChunk(q, i).answerConfidence = Absent
       /\ InResult(q, i) =>
            /\ ResultChunk(q, i).summary <=> q.work[i].summarize = "summary"
            /\ ResultChunk(q, i).answer => q.work[i].extract = "answer"
            /\ ResultChunk(q, i).score = q.work[i].hit.score
  /\ q.rerank = "throw" =>
       [i \in DOMAIN q.work |-> q.work[i].hit] = Slice(q.basic, ResultLimit(q.query))

(***************************************************************************)
(* C23 as stated: when extractAnswer or summarize has failed or timed out  *)
(* for a chunk, the query is not failed and that chunk is returned with    *)
(* the field absent; the other chunks carry the fields of their own        *)
(* sub-calls; after a rerank failure the candidates are in similarity      *)
(* order.                                                                  *)
(***************************************************************************)
C23_FailedChunkReturned ==
  \A id \in QueryIds :
    LET q == queries[id] IN
    AllDone(q) =>
      /\ FailureIsLocal(id, q)
      /\ \A i \in DOMAIN q.work :
           q.work[i].summarize \in Failures => InResult(q, i)

(***************************************************************************)
(* C23, amended: as above, except that a chunk whose summarize failed is   *)
(* returned unless the confidence filter drops it for its own answer (a    *)
(* confidence not above 0.1 next to another chunk's above 0.3).            *)
(***************************************************************************)
C23_SubCallFailureIsLocal ==
  \A id \in QueryIds :
    LET q == queries[id] IN
    AllDone(q) =>
      /\ FailureIsLocal(id, q)
      /\ \A i \in DOMAIN q.work :
           q.work[i].summarize \in Failures =>
             InResult(q, i) \/ DroppedForConfidence(q, i)

\* a query returned two chunks: the answer extraction of one timed out, the
\* summarization of the other threw, and both are returned
C23_Witness ==
  \E id \in QueryIds :
    LET q == queries[id] IN
    /\ AllDone(q)
    /\ q.pc = "returned"
    /\ \E i, j \in DOMAIN q.work :
         /\ q.work[i].extract = "timeout"
         /\ q.work[j].summarize = "throw"
         /\ q.work[j].extract = "answer"
         /\ i # j
         /\ InResult(q, i)
         /\ InResult(q, j)

\* Every awaited call that ends at all ends eventually: the embedding and the
\* search of retrieve end, the reranker model responds when it ever does, and
\* extractAnswer and summarize end by the response of their model or by the
\* timer of withTimeout
FairQuerySpec ==
  /\ QuerySpec
  /\ WF_vars(RetrieveEnds)
  /\ WF_vars(RerankEnds)
  /\ WF_vars(ExtractEnds)
  /\ WF_vars(SummarizeEnds)
  /\ WF_vars(FallbackEnds)

(***************************************************************************)
(* C24: every intelligentRetrieve call eventually ends, also when one of   *)
(* the models of rerank, extractAnswer and summarize never responds: the   *)
(* sub-call is ended by its timeout.                                       *)
(***************************************************************************)
C24_SubCallsBounded ==
  \A id \in QueryIds : (queries[id].pc # "none") ~> Ended(queries[id])

\* the query-status and result messages posted for a query, in order
QueryEvents(id) == SelectSeq(queryLog[id], LAMBDA e : e # "worker-error")

\* the orders of the messages of a query that ends completed, and of one that
\* fails after any of its stages
QueryEventOrders ==
  { <<"started", "retrieving", "scoring", "intelligent-query-result", "completed">>,
    <<"started", "retrieving", "scoring", "failed">>,
    <<"started", "retrieving", "failed">>,
    <<"started", "failed">> }

QueryEventsInOrder ==
  \A id \in QueryIds : \E order \in QueryEventOrders : IsPrefix(QueryEvents(id), order)

\* a terminal query-status was posted for the query
QueryTerminated(id) == Posted(id, "completed") + Posted(id, "failed") > 0

(***************************************************************************)
(* C25: the messages posted for a query are, in this order, started,       *)
(* retrieving, scoring, one intelligent-query-result and completed, or the *)
(* stages up to some point and then failed without a result; and every     *)
(* query that was started gets its terminal status.                        *)
(***************************************************************************)
C25_QueryStatusOrder ==
  /\ []QueryEventsInOrder
  /\ \A id \in QueryIds : (queryLog[id] # <<>>) ~> QueryTerminated(id)

(***************************************************************************)
(* C26: the delivery of a clear-cache message leaves the cache empty, and  *)
(* the delivery of a get-cache-stats message posts exactly one cache-stats *)
(* message, with the size, the capacity and the hits and age of every      *)
(* entry of the cache.                                                     *)
(***************************************************************************)
C26_CacheControlTakesEffect ==
  [][/\ handling'.type = "clear-cache" => cache' = <<>>
     /\ handling'.type = "get-cache-stats" =>
          statsLog' = Append(statsLog, getCacheStats(cache, now))]_vars

(***************************************************************************)
(* The vector store on its own: addChunks, clearJob and search called in   *)
(* any order.  Each method runs from its call to its return without an     *)
(* await, so each call is one step.                                        *)
(***************************************************************************)
\* The chunks the store is given, with their jobs: scores repeat within a job
\* and across jobs
StoreDocs ==
  { StoredVector(1, 1, 500, 60), StoredVector(2, 1, 900, 60),
    StoredVector(3, 2, 900, 60), StoredVector(4, 2, 500, 60),
    StoredVector(5, 1, 900, 60) }

\* The chunk sequences of one addChunks call for a job: one or two chunks of
\* the job that are not stored yet
ChunkLists(stored, jobId) ==
  LET new == {d \in StoreDocs :
                d.jobId = jobId /\ \A i \in DOMAIN stored : stored[i] # d}
  IN {<<d>> : d \in new}
       \cup {<<pair[1], pair[2]>> : pair \in {p \in new \X new : p[1] # p[2]}}

\* The job-id filters of search: absent or empty, one job, two jobs, a job
\* nothing is stored for
JobFilters == {<<>>, <<1>>, <<2>>, <<1, 2>>, <<3>>}

\* search is called with limits up to MaxLimit
MaxLimit == 3

StoreInit ==
  /\ jobState = Null
  /\ tasks = {}
  /\ timers = 0
  /\ jobLog = [j \in JobIds |-> <<>>]
  /\ pageLog = [k \in JobIds \X Pages |-> <<>>]
  /\ workerErrors = {}
  /\ index = {}
  /\ started = 0
  /\ handling = NoMessage
  /\ cache = <<>>
  /\ now = 0
  /\ calls = {}
  /\ callsMade = 0
  /\ lastSeen = NothingSeen
  /\ QueryInit

StoreFrame ==
  UNCHANGED <<workerVars, handling, cacheVars, queries, queryLog, asked, statsLog,
              promises>>

\* VectorStore.addChunks(jobId, url, chunks, vectors)
AddChunks ==
  /\ \E jobId \in {1, 2} :
       \E chunks \in ChunkLists(vectors, jobId) :
         /\ vectors' = addChunks(vectors, jobId, chunks)
         /\ lastCall' = [op |-> "addChunks", jobId |-> jobId, chunks |-> chunks]
  /\ StoreFrame

\* VectorStore.clearJob(jobId)
ClearJob ==
  /\ \E jobId \in {1, 2, 3} :
       /\ vectors' = clearJob(vectors, jobId)
       /\ lastCall' = [op |-> "clearJob", jobId |-> jobId,
                       removed |-> Len(vectors) - Len(vectors')]
  /\ StoreFrame

\* VectorStore.search(queryVector, limit, jobIds)
Search ==
  /\ \E limit \in 1..MaxLimit, jobIds \in JobFilters :
       lastCall' = [op |-> "search", limit |-> limit, jobIds |-> jobIds,
                    results |-> search(vectors, limit, jobIds)]
  /\ vectors' = vectors
  /\ StoreFrame

StoreNext == AddChunks \/ ClearJob \/ Search

StoreSpec == StoreInit /\ [][StoreNext]_vars

\* the positions in the store of the candidates of a search
CandidatePositions(jobIds) ==
  {k \in DOMAIN vectors :
     jobIds = <<>> \/ \E i \in DOMAIN jobIds : jobIds[i] = vectors[k].jobId}

\* the position in the store of a stored document
Position(document) == CHOOSE k \in DOMAIN vectors : vectors[k] = document

(***************************************************************************)
(* C27: search returns min(limit, number of candidates) of the candidates, *)
(* each once, where the candidates are the stored documents of the jobs of *)
(* the filter (all documents without filter); scores do not increase along *)
(* the results, results of equal score are in insertion order, and no      *)
(* candidate left out scores higher than a returned one.                   *)
(***************************************************************************)
C27_SearchTopByScore ==
  lastCall.op = "search" =>
    LET results == lastCall.results
        candidates == CandidatePositions(lastCall.jobIds)
        returned == {Position(results[i]) : i \in DOMAIN results}
    IN /\ Len(results) = IF lastCall.limit < Cardinality(candidates)
                         THEN lastCall.limit ELSE Cardinality(candidates)
       /\ \A i \in DOMAIN results : \E k \in candidates : vectors[k] = results[i]
       /\ Cardinality(returned) = Len(results)
       /\ \A i, j \in DOMAIN results :
            i < j =>
              /\ results[i].score >= results[j].score
              /\ results[i].score = results[j].score =>
                   Position(results[i]) < Position(results[j])
       /\ \A k \in candidates \ returned, i \in DOMAIN results :
            vectors[k].score <= results[i].score

\* a search with a job filter returned two documents of equal score and left
\* out a candidate, while documents of another job are stored
C27_Witness ==
  /\ lastCall.op = "search"
  /\ lastCall.jobIds = <<1>>
  /\ Len(lastCall.results) = 2
  /\ lastCall.results[1].score = lastCall.results[2].score
  /\ Cardinality(CandidatePositions(lastCall.jobIds)) = 3
  /\ Len(vectors) > 3

\* the stored documents of the other jobs, in their order
OfOtherJobs(stored, jobId) == SelectSeq(stored, LAMBDA v : v.jobId # jobId)

\* the stored documents of a job, in their order
OfJob(stored, jobId) == SelectSeq(stored, LAMBDA v : v.jobId = jobId)

(***************************************************************************)
(* C28: a clearJob(jobId) call leaves no document of the job and leaves    *)
(* the documents of the other jobs as they were, in their order; a second  *)
(* call changes nothing more, and a call for a job without documents       *)
(* changes nothing.  Every change of the store is one whole call: all the  *)
(* chunks of an addChunks call appended, or all the documents of a job     *)
(* removed.                                                                *)
(***************************************************************************)
C28_ClearJobWholeAndIdempotent ==
  [][/\ lastCall'.op = "clearJob" =>
          LET jobId == lastCall'.jobId IN
          /\ OfJob(vectors', jobId) = <<>>
          /\ OfOtherJobs(vectors', jobId) = OfOtherJobs(vectors, jobId)
          /\ clearJob(vectors', jobId) = vectors'
          /\ OfJob(vectors, jobId) = <<>> => vectors' = vectors
     /\ vectors' # vectors =>
          \/ /\ lastCall'.op = "clearJob"
             /\ vectors' = OfOtherJobs(vectors, lastCall'.jobId)
          \/ /\ lastCall'.op = "addChunks"
             /\ Len(vectors') = Len(vectors) + Len(lastCall'.chunks)
             /\ SubSeq(vectors', 1, Len(vectors)) = vectors
             /\ \A i \in DOMAIN lastCall'.chunks :
                  /\ vectors'[Len(vectors) + i].id = lastCall'.chunks[i].id
                  /\ vectors'[Len(vectors) + i].jobId = lastCall'.jobId]_vars

\* clearJob has removed the two documents of a job that were stored between
\* the documents of the other job, which are still there
C28_Witness ==
  /\ lastCall.op = "clearJob"
  /\ lastCall.removed = 2
  /\ Len(vectors) = 2
  /\ vectors[1].jobId # lastCall.jobId
  /\ vectors[1].id > vectors[2].id

(***************************************************************************)
(* The chunker (shared/src/chunking.ts).  A text is a sequence of          *)
(* characters, a token a sequence of characters without whitespace.        *)
(***************************************************************************)
DEFAULT_TOKENS_PER_CHUNK == 800
DEFAULT_OVERLAP_TOKENS == 160
MIN_TOKENS_PER_CHUNK == 80

\* the characters matched by \s that occur
Whitespace == {" ", "\n", "\r", "\t"}

\* rawText.replace(/\r\n|\r/g, '\n')
RECURSIVE replaceNewlines(_)
replaceNewlines(text) ==
  IF text = <<>> THEN <<>>
  ELSE IF Head(text) = "\r"
       THEN <<"\n">> \o replaceNewlines(IF Len(text) > 1 /\ text[2] = "\n"
                                        THEN Tail(Tail(text))
                                        ELSE Tail(text))
       ELSE <<Head(text)>> \o replaceNewlines(Tail(text))

\* the text after its leading whitespace
RECURSIVE afterWhitespace(_)
afterWhitespace(text) ==
  IF text # <<>> /\ Head(text) \in Whitespace
  THEN afterWhitespace(Tail(text))
  ELSE text

\* text.replace(/\s+/g, ' ')
RECURSIVE replaceWhitespace(_)
replaceWhitespace(text) ==
  IF text = <<>> THEN <<>>
  ELSE IF Head(text) \in Whitespace
       THEN <<" ">> \o replaceWhitespace(afterWhitespace(text))
       ELSE <<Head(text)>> \o replaceWhitespace(Tail(text))

\* normalizeText(rawText)
normalizeText(rawText) == trim(replaceWhitespace(replaceNewlines(rawText)))

\* String.prototype.split(' ')
RECURSIVE split(_)
split(text) ==
  IF \E k \in DOMAIN text : text[k] = " "
  THEN LET k == CHOOSE k \in DOMAIN text :
                  /\ text[k] = " "
                  /\ \A j \in 1..(k - 1) : text[j] # " "
       IN <<SubSeq(text, 1, k - 1)>> \o split(SubSeq(text, k + 1, Len(text)))
  ELSE <<text>>

\* Array.prototype.join(' ')
RECURSIVE join(_)
join(tokens) ==
  IF tokens = <<>> THEN <<>>
  ELSE IF Len(tokens) = 1 THEN tokens[1]
  ELSE tokens[1] \o <<" ">> \o join(Tail(tokens))

\* Array.prototype.slice(start, end), 0 <= start
slice(tokens, start, end) ==
  SubSeq(tokens, start + 1, IF end < Len(tokens) THEN end ELSE Len(tokens))

\* value ?? default
OrDefault(value, default) == IF value = Absent THEN default ELSE value

\* Math.max, Math.min
MathMax(a, b) == IF a >= b THEN a ELSE b
MathMin(a, b) == IF a <= b THEN a ELSE b

\* ChunkingOptions: the three sizes, each a number or Absent
ChunkingOptions(tokensPerChunk, overlapTokens, minTokensPerChunk) ==
  [tokensPerChunk |-> tokensPerChunk, overlapTokens |-> overlapTokens,
   minTokensPerChunk |-> minTokensPerChunk]

\* the window, the overlap, the step and the minimum that chunkText uses
tokensPerChunk(options) ==
  MathMax(OrDefault(options.tokensPerChunk, DEFAULT_TOKENS_PER_CHUNK),
          OrDefault(options.minTokensPerChunk, MIN_TOKENS_PER_CHUNK))

overlapTokens(options) ==
  MathMin(OrDefault(options.overlapTokens, DEFAULT_OVERLAP_TOKENS),
          MathMax(tokensPerChunk(options) - 1, 0))

step(options) == MathMax(tokensPerChunk(options) - overlapTokens(options), 1)

minTokensPerChunk(options) ==
  OrDefault(options.minTokensPerChunk, MIN_TOKENS_PER_CHUNK)

\* TextChunk: the ordinal, the text and its counts (the id is a fresh random
\* string, jobId, url, headingPath and createdAt are copied from the options)
TextChunk(order, text, wordCount) ==
  [order |-> order, text |-> text, wordCount |-> wordCount,
   charCount |-> Len(text)]

\* the loop of chunkText from `start', every window pushed as a chunk
RECURSIVE chunkLoop_NoMerge(_, _, _, _, _)
chunkLoop_NoMerge(tokens, options, start, order, chunks) ==
  IF start >= Len(tokens) THEN chunks
  ELSE LET window == slice(tokens, start, start + tokensPerChunk(options))
       IN chunkLoop_NoMerge(tokens, options, start + step(options), order + 1,
            Append(chunks, TextChunk(order, join(window), Len(window))))

\* the loop of chunkText from `start', a short window appended whole
RECURSIVE chunkLoop_MergeWhole(_, _, _, _, _)
chunkLoop_MergeWhole(tokens, options, start, order, chunks) ==
  IF start >= Len(tokens) THEN chunks
  ELSE LET window == slice(tokens, start, start + tokensPerChunk(options))
       IN IF Len(window) < minTokensPerChunk(options) /\ Len(chunks) > 0
          THEN LET previous == chunks[Len(chunks)]
               IN [chunks EXCEPT ![Len(chunks)] =
                     TextChunk(previous.order,
                               trim(previous.text \o <<" ">> \o join(window)),
                               previous.wordCount + Len(window))]
          ELSE chunkLoop_MergeWhole(tokens, options, start + step(options),
                 order + 1,
                 Append(chunks, TextChunk(order, join(window), Len(window))))

\* the loop of chunkText from `start', a short window left out
RECURSIVE chunkLoop_DropTail(_, _, _, _, _)
chunkLoop_DropTail(tokens, options, start, order, chunks) ==
  IF start >= Len(tokens) THEN chunks
  ELSE LET window == slice(tokens, start, start + tokensPerChunk(options))
       IN IF Len(window) < minTokensPerChunk(options) /\ Len(chunks) > 0
          THEN chunks
          ELSE chunkLoop_DropTail(tokens, options, start + step(options),
                 order + 1,
                 Append(chunks, TextChunk(order, join(window), Len(window))))

\* the loop of chunkText from `start'
RECURSIVE chunkLoop(_, _, _, _, _)
chunkLoop(tokens, options, start, order, chunks) ==
  IF start >= Len(tokens) THEN chunks
  ELSE LET window == slice(tokens, start, start + tokensPerChunk(options))
       IN IF Len(window) < minTokensPerChunk(options) /\ Len(chunks) > 0
          THEN LET previous == chunks[Len(chunks)]
                   uniqueSlice ==
                     slice(window, MathMin(overlapTokens(options), Len(window)),
                           Len(window))
               IN IF Len(uniqueSlice) > 0
                  THEN [chunks EXCEPT ![Len(chunks)] =
                          TextChunk(previous.order,
                                    trim(previous.text \o <<" ">>
                                           \o join(uniqueSlice)),
                                    previous.wordCount + Len(uniqueSlice))]
                  ELSE chunks
          ELSE chunkLoop(tokens, options, start + step(options), order + 1,
                 Append(chunks, TextChunk(order, join(window), Len(window))))

\* chunkText(rawText, options)
chunkText(rawText, options) ==
  LET normalized == normalizeText(rawText)
      tokens == SelectSeq(split(normalized), LAMBDA t : t # <<>>)
  IN IF normalized = <<>> \/ tokens = <<>> THEN <<>>
     ELSE chunkLoop(tokens, options, 0, 0, <<>>)

(***************************************************************************)
(* The texts and options given to the chunker.                             *)
(***************************************************************************)
MaxTokens == 6
MaxOption == 4

Letters == <<"a", "b", "c", "d", "e", "f", "g", "h">>

\* the i-th word of a text: one or two letters
Word(i) == [k \in 1..(1 + (i % 2)) |-> Letters[i]]

RECURSIVE Between(_, _)
Between(words, separator) ==
  IF words = <<>> THEN <<>>
  ELSE IF Len(words) = 1 THEN words[1]
  ELSE words[1] \o separator \o Between(Tail(words), separator)

Separators == {<<" ">>, <<" ", " ">>, <<"\r", "\n">>, <<"\t">>, <<"\r">>,
               <<"\n", " ">>}

Paddings == {<<>>, <<" ">>, <<"\n", "\t">>}

RawTexts ==
  {padding \o Between([i \in 1..n |-> Word(i)], separator) \o padding :
     n \in 0..MaxTokens, separator \in Separators, padding \in Paddings}

Sizes == {Absent} \cup 0..MaxOption

OptionSets ==
  {ChunkingOptions(t, o, m) : t \in Sizes, o \in Sizes, m \in Sizes}

\* a text and an option set are given, the chunker has not been called
ChunkInit ==
  /\ jobState = Null
  /\ tasks = {}
  /\ timers = 0
  /\ jobLog = [j \in JobIds |-> <<>>]
  /\ pageLog = [k \in JobIds \X Pages |-> <<>>]
  /\ workerErrors = {}
  /\ index = {}
  /\ started = 0
  /\ handling = NoMessage
  /\ cache = <<>>
  /\ now = 0
  /\ calls = {}
  /\ callsMade = 0
  /\ lastSeen = NothingSeen
  /\ vectors = <<>>
  /\ queries = [id \in QueryIds |-> NoQuery]
  /\ queryLog = [id \in QueryIds |-> <<>>]
  /\ asked = 0
  /\ statsLog = <<>>
  /\ promises = NoPromises
  /\ \E rawText \in RawTexts, options \in OptionSets :
       lastCall = [op |-> "given", rawText |-> rawText, options |-> options]

\* chunkText(rawText, options)
ChunkText ==
  /\ lastCall.op = "given"
  /\ lastCall' = [op |-> "chunkText", rawText |-> lastCall.rawText,
                  options |-> lastCall.options,
                  chunks |-> chunkText(lastCall.rawText, lastCall.options)]
  /\ vectors' = vectors
  /\ StoreFrame

ChunkNext == ChunkText

ChunkSpec == ChunkInit /\ [][ChunkNext]_vars

\* the tokens of a text of a chunk
TokensOf(text) == SelectSeq(split(text), LAMBDA t : t # <<>>)

\* the last and the first `count' tokens of a sequence of tokens, all of
\* them when there are fewer
LastTokens(tokens, count) ==
  SubSeq(tokens, MathMax(Len(tokens) - count, 0) + 1, Len(tokens))

FirstTokens(tokens, count) == SubSeq(tokens, 1, MathMin(count, Len(tokens)))

\* a chunk that has received the tokens of a short last window
TailMerged(chunk, options) == chunk.wordCount > tokensPerChunk(options)

\* chunkText has been called
Chunked == lastCall.op = "chunkText"

(***************************************************************************)
(* C29: in the chunks of every text under every option set, the last       *)
(* `overlap' tokens of a chunk are the first `overlap' tokens of the next  *)
(* chunk, unless the next chunk has received a tail merge, where overlap   *)
(* is min(overlapTokens, window - 1).                                      *)
(***************************************************************************)
C29_AdjacentChunksOverlap ==
  Chunked =>
    LET chunks == lastCall.chunks
        overlap == overlapTokens(lastCall.options)
    IN \A i \in 1..(Len(chunks) - 1) :
         ~TailMerged(chunks[i + 1], lastCall.options) =>
           LastTokens(TokensOf(chunks[i].text), overlap)
             = FirstTokens(TokensOf(chunks[i + 1].text), overlap)

\* the positions of a raw text where a word starts
WordStarts(rawText) ==
  {k \in DOMAIN rawText :
     /\ rawText[k] \notin Whitespace
     /\ k = 1 \/ rawText[k - 1] \in Whitespace}

\* the chunks of the call that are shorter than the minimum
ShortChunks ==
  {i \in DOMAIN lastCall.chunks :
     lastCall.chunks[i].wordCount < minTokensPerChunk(lastCall.options)}

(***************************************************************************)
(* C30: of the chunks of a text, at most one has fewer words than          *)
(* minTokensPerChunk, and it is the first and only chunk of a text that    *)
(* has fewer words than the minimum; an empty text and a text of           *)
(* whitespace have no chunks.                                              *)
(***************************************************************************)
C30_ChunksReachMinimum ==
  Chunked =>
    /\ Cardinality(ShortChunks) <= 1
    /\ \A i \in ShortChunks :
         /\ i = 1
         /\ Len(lastCall.chunks) = 1
         /\ Cardinality(WordStarts(lastCall.rawText))
              < minTokensPerChunk(lastCall.options)
    /\ WordStarts(lastCall.rawText) = {} => lastCall.chunks = <<>>

\* a text of several chunks whose short last window went into the chunk
\* before it, under a minimum of two words or more
C30_Witness ==
  /\ Chunked
  /\ Len(lastCall.chunks) >= 2
  /\ minTokensPerChunk(lastCall.options) >= 2
  /\ TailMerged(lastCall.chunks[Len(lastCall.chunks)], lastCall.options)
  /\ ShortChunks = {}

\* the tokens of the text given to the chunker
GivenTokens == TokensOf(normalizeText(lastCall.rawText))

\* the k-th sliding window over the given tokens, k = 0, 1, ...
WindowAt(k) ==
  slice(GivenTokens, k * step(lastCall.options),
        k * step(lastCall.options) + tokensPerChunk(lastCall.options))

\* the windows after the first that start inside the text and are shorter
\* than the minimum
ShortWindows ==
  {k \in 1..Len(GivenTokens) :
     /\ k * step(lastCall.options) < Len(GivenTokens)
     /\ Len(WindowAt(k)) < minTokensPerChunk(lastCall.options)}

\* the first of them
FinalWindow == CHOOSE k \in ShortWindows : \A j \in ShortWindows : k <= j

\* the tokens of a window that the window before it does not hold, in order
UniqueTokens(k) ==
  SelectSeq(WindowAt(k),
            LAMBDA t : \A i \in DOMAIN WindowAt(k - 1) : WindowAt(k - 1)[i] # t)

(***************************************************************************)
(* C31: when a sliding window after the first is shorter than              *)
(* minTokensPerChunk, no chunk is emitted for it or for anything after it: *)
(* the chunks are the windows before it, and the last of them has received *)
(* exactly the tokens of the short window that it did not hold, in order,  *)
(* its wordCount grown by their number and its charCount the length of its *)
(* new text.                                                               *)
(***************************************************************************)
C31_TailMerge ==
  (Chunked /\ ShortWindows # {}) =>
    LET chunks == lastCall.chunks
        k == FinalWindow
        merged == WindowAt(k - 1) \o UniqueTokens(k)
    IN /\ Len(chunks) = k
       /\ \A j \in 1..(k - 1) :
            /\ chunks[j].text = join(WindowAt(j - 1))
            /\ chunks[j].wordCount = Len(WindowAt(j - 1))
       /\ chunks[k].text = join(merged)
       /\ chunks[k].wordCount = Len(WindowAt(k - 1)) + Len(UniqueTokens(k))
       /\ chunks[k].charCount = Len(chunks[k].text)

\* a short window that shares a token with the chunk before it and brings a
\* new one
C31_Witness ==
  /\ Chunked
  /\ ShortWindows # {}
  /\ UniqueTokens(FinalWindow) # <<>>
  /\ Len(UniqueTokens(FinalWindow)) < Len(WindowAt(FinalWindow))
  /\ Len(lastCall.chunks) >= 2

\* the step stores a result in a cache that is at its capacity
IsInsertionAtCapacity == IsInsertion /\ Len(cache) >= cacheMaxSize

\* the position of the entry that the step takes out of the cache: the first
\* one where the cache after the step differs from the cache before it
EvictedIndex ==
  CHOOSE i \in DOMAIN cache :
    /\ i > Len(cache') \/ cache'[i].key # cache[i].key
    /\ \A k \in 1..(i - 1) : cache'[k].key = cache[k].key

(***************************************************************************)
(* C32: a step that stores a result in a cache at capacity takes one entry *)
(* out of it, the one with the lowest score timestamp/1000 + hits*60000 of *)
(* the entries present and the first of them in insertion order: no entry  *)
(* has a lower score, and every entry before it has a strictly higher one. *)
(***************************************************************************)
C32_EvictsLowestScore ==
  [][IsInsertionAtCapacity =>
       \E i \in {EvictedIndex}, lowest \in {Score(cache[EvictedIndex])} :
         /\ cache[i].key # lastSeen'.key => Find(cache', cache[i].key) = 0
         /\ Len(cache') <= Len(cache)
         /\ \A k \in DOMAIN cache : lowest <= Score(cache[k])
         /\ \A k \in 1..(i - 1) : Score(cache[k]) > lowest]_vars

\* a result was stored at capacity: the first entry, which had a hit, is
\* still there, the second one, which had none, is gone
C32_Witness ==
  /\ lastSeen.type = "return"
  /\ lastSeen.fromCache = "false"
  /\ Len(cache) = cacheMaxSize
  /\ Find(cache, CacheKeyOf(FillQuery(1))) = 1
  /\ Find(cache, CacheKeyOf(FillQuery(2))) = 0
  /\ Find(cache, CacheKeyOf(FillQuery(3))) # 0

(***************************************************************************)
(* Two intelligentRetrieve calls and the cache entry of the first: the     *)
(* first call stores its result in an empty cache, the second looks its    *)
(* key up.                                                                 *)
(***************************************************************************)
KeyTexts ==
  {<<"d">>, <<"D">>, <<" ", "d", " ">>, <<"d", ":", "5">>, <<"d", " ", "f">>,
   <<"d", "f">>}

\* limit 0 stands for an absent limit
KeyLimits == {0, 1, 5, 15}

KeyJobLists == {<<>>, <<1>>, <<2>>, <<1, 2>>, <<2, 1>>, <<12>>}

KeyQueries ==
  {RetrievalQuery(text, limit, jobIds) :
     text \in KeyTexts, limit \in KeyLimits, jobIds \in KeyJobLists}

KeyInit ==
  /\ jobState = Null
  /\ tasks = {}
  /\ timers = 0
  /\ jobLog = [j \in JobIds |-> <<>>]
  /\ pageLog = [k \in JobIds \X Pages |-> <<>>]
  /\ workerErrors = {}
  /\ index = {}
  /\ started = 0
  /\ handling = NoMessage
  /\ cache = <<>>
  /\ now = 0
  /\ calls = {}
  /\ callsMade = 0
  /\ lastSeen = NothingSeen
  /\ vectors = <<>>
  /\ queries = [id \in QueryIds |-> NoQuery]
  /\ queryLog = [id \in QueryIds |-> <<>>]
  /\ asked = 0
  /\ statsLog = <<>>
  /\ promises = NoPromises
  /\ \E first \in KeyQueries, second \in KeyQueries :
       lastCall = [op |-> "given", first |-> first, second |-> second]

\* intelligentRetrieve(first) stores its result, intelligentRetrieve(second)
\* looks its key up
SecondLookup ==
  /\ lastCall.op = "given"
  /\ LET stored == setCache(<<>>, CacheKeyOf(lastCall.first),
                            Payload("intelligent", lastCall.first), now)
     IN lastCall' = [op |-> "lookup", first |-> lastCall.first,
                     second |-> lastCall.second,
                     shared |-> getCached(stored, CacheKeyOf(lastCall.second),
                                          now).hit]
  /\ vectors' = vectors
  /\ StoreFrame

KeyNext == SecondLookup

KeySpec == KeyInit /\ [][KeyNext]_vars

\* the limit of a query, an absent one counting as 5
LimitOr5(query) == IF query.limit = 0 THEN 5 ELSE query.limit

\* the jobs a query is about: the empty set stands for all jobs
JobScope(query) == {query.jobIds[i] : i \in DOMAIN query.jobIds}

\* two queries agree on the normalized text, the limit and the job-id set
SameTriple(first, second) ==
  /\ trim(toLowerCase(first.text)) = trim(toLowerCase(second.text))
  /\ LimitOr5(first) = LimitOr5(second)
  /\ JobScope(first) = JobScope(second)

(***************************************************************************)
(* C33: the second of two intelligentRetrieve calls finds the cache entry  *)
(* of the first if and only if their texts are equal after lower-casing    *)
(* and trimming, their limits are equal (an absent limit counting as 5)    *)
(* and their job-id sets are equal whatever the order of the ids (an       *)
(* absent or empty list standing for all jobs).                            *)
(***************************************************************************)
C33_KeyIdentifiesTriple ==
  lastCall.op = "lookup" =>
    (lastCall.shared <=> SameTriple(lastCall.first, lastCall.second))

\* the second call found the entry of a first call that spelled the text
\* differently, gave the limit where the second gave none, and listed the
\* jobs in the other order
C33_Witness ==
  /\ lastCall.op = "lookup"
  /\ lastCall.shared
  /\ lastCall.first.text # lastCall.second.text
  /\ lastCall.first.limit = 5
  /\ lastCall.second.limit = 0
  /\ lastCall.first.jobIds = <<2, 1>>
  /\ lastCall.second.jobIds = <<1, 2>>

\* the query went through the whole pipeline and returned its result
Filtered(q) == q.pc = "returned" /\ q.result.fromCache = "false"

\* one of the selected chunks has an answer of confidence above 0.3
HasGoodAnswer(q) ==
  \E i \in DOMAIN q.work : q.work[i].answerConfidence > 300

\* the i-th selected chunk has an answer, of confidence 0.1 or less
HasPoorAnswer(q, i) ==
  /\ q.work[i].answerConfidence # Absent
  /\ q.work[i].answerConfidence <= 100

\* the selected chunks that the filter has to keep, in their order
ToKeep(q) ==
  SelectSeq(q.work, LAMBDA w :
    ~(HasGoodAnswer(q) /\ w.answerConfidence # Absent
                       /\ w.answerConfidence <= 100))

(***************************************************************************)
(* C34: the chunks of a result of the whole pipeline are the selected      *)
(* chunks in their order, without those that have an answer of confidence  *)
(* 0.1 or less when some selected chunk has an answer of confidence above  *)
(* 0.3, and all of them otherwise; they are not empty when chunks were     *)
(* selected, and totalFound is their number.                               *)
(***************************************************************************)
C34_PostFilter ==
  \A id \in QueryIds :
    LET q == queries[id] IN
    Filtered(q) =>
      /\ Len(q.result.chunks) = Len(ToKeep(q))
      /\ \A k \in DOMAIN q.result.chunks :
           q.result.chunks[k] = IntelligentChunk(ToKeep(q)[k])
      /\ ~HasGoodAnswer(q) => Len(q.result.chunks) = Len(q.work)
      /\ q.work # <<>> => q.result.chunks # <<>>
      /\ q.result.totalFound = Len(q.result.chunks)

\* two chunks were selected, the first got an answer of confidence 0.1 and
\* the second one of 0.5: only the second is returned
C34_Witness ==
  \E id \in QueryIds :
    LET q == queries[id] IN
    /\ Filtered(q)
    /\ Len(q.work) = 2
    /\ HasPoorAnswer(q, 1)
    /\ q.work[2].answerConfidence > 300
    /\ Len(q.result.chunks) = 1
    /\ q.result.chunks[1].chunkId = q.work[2].hit.id

\* the URLs of job j for which a final page-progress event has been posted
EndedPages(j) ==
  {u \in Pages : \E i \in DOMAIN pageLog[<<j, u>>] :
                   pageLog[<<j, u>>][i].status \in FinalStatuses}

(***************************************************************************)
(* C35: while a job is active, its processedPages is the number of its     *)
(* URLs for which a final page-progress event (parsed, skipped or failed)  *)
(* has been posted.                                                        *)
(***************************************************************************)
C35_ProcessedCountsEndedPages ==
  Active =>
    jobState.processedPages = Cardinality(EndedPages(jobState.config.jobId))

\* the step resumes a page task of a job other than the one the worker holds
IsStaleTaskStep ==
  /\ jobState # Null
  /\ \E t \in tasks \ tasks' : t.config.jobId # jobState.config.jobId

(***************************************************************************)
(* C36: a page task of a job that ended, resumed while the worker holds a  *)
(* later job, leaves that job's state as it is (processedPages,            *)
(* discoveredPages, the visited set, the queue) and posts no job-status    *)
(* 'running' or 'completed'.                                               *)
(***************************************************************************)
C36_JobIsolation ==
  [][IsStaleTaskStep =>
       /\ jobState' # Null
       /\ jobState'.processedPages = jobState.processedPages
       /\ jobState'.discoveredPages = jobState.discoveredPages
       /\ jobState'.visited = jobState.visited
       /\ jobState'.queue = jobState.queue
       /\ \A j \in JobIds :
            /\ ~Posts(NewJobStatus(j), "running")
            /\ ~Posts(NewJobStatus(j), "completed")]_vars

\* the pages of job j whose chunks are in the vector index after the step
IndexedPages(j) == {e \in index' : e.jobId = j}

\* the page-result events posted for job j up to the end of the step
PageResults(j) ==
  {<<u, i>> \in Pages \X (1..8) :
     /\ i \in DOMAIN pageLog'[<<j, u>>]
     /\ pageLog'[<<j, u>>][i].status = "page-result"}

(***************************************************************************)
(* C37: when a page task has taken a step, the number of pages of its job  *)
(* in the vector index and the number of page-result events posted for its *)
(* job are at most the maxPages of the job's configuration.                *)
(***************************************************************************)
C37_IndexedWithinPageLimit ==
  [][\A t \in tasks \ tasks' :
       /\ Cardinality(IndexedPages(t.config.jobId)) <= t.config.maxPages
       /\ Cardinality(PageResults(t.config.jobId)) <= t.config.maxPages]_vars

(***************************************************************************)
(* Queries while the index changes: RetrievalEngine.indexChunks, called by *)
(* processUrl for every crawled page, and RetrievalEngine.deleteJob.       *)
(***************************************************************************)
\* A chunk of a page crawled after the first query, the best match so far
Doc4 == StoredVector(4, 1, 950, 60)

\* RetrievalEngine.indexChunks(jobId, url, chunks): the chunks are embedded
\* and added to the vector store; the cache is not touched.  The index
\* changes once in a run.
IndexChunks ==
  /\ lastCall = NoCall
  /\ vectors' = addChunks(vectors, Doc4.jobId, <<Doc4>>)
  /\ lastCall' = [op |-> "indexChunks", jobId |-> Doc4.jobId]
  /\ StoreFrame

\* RetrievalEngine.deleteJob(jobId): the job's vectors are removed from the
\* store; the cache is not touched
DeleteJob ==
  /\ lastCall = NoCall
  /\ \E jobId \in {1} :
       /\ vectors' = clearJob(vectors, jobId)
       /\ lastCall' = [op |-> "deleteJob", jobId |-> jobId]
  /\ StoreFrame

IndexedQueryNext == QueryNext \/ IndexChunks \/ DeleteJob

\* One page is indexed when the first query is asked
IndexedQueryInitial == QueryInitial /\ vectors = <<Doc1>>

IndexedQuerySpec == IndexedQueryInitial /\ [][IndexedQueryNext]_vars

\* the step is a query that is answered from the cache
IsCacheServed(id) ==
  /\ queries[id].pc = "none"
  /\ queries'[id].pc = "returned"
  /\ queries'[id].result.fromCache = "true"

\* the candidates the index gives now for the query of a call
CandidatesNow(q) ==
  retrieve(vectors, [q.query EXCEPT !.limit = initialLimit(q.query)])

(***************************************************************************)
(* C38: a query answered from the cache gets a result that was computed on *)
(* the index as it is: the candidates of the call that computed the result *)
(* are those the index gives now, and every returned chunk is stored.      *)
(***************************************************************************)
C38_CacheFollowsIndex ==
  [][\A id \in QueryIds :
       IsCacheServed(id) =>
         /\ \A k \in DOMAIN queries'[id].result.chunks :
              \E i \in DOMAIN vectors :
                vectors[i].id = queries'[id].result.chunks[k].chunkId
         /\ \A other \in QueryIds \ {id} :
              (/\ queries[other].pc = "returned"
               /\ queries[other].key = queries'[id].key
               /\ queries[other].result.fromCache = "false")
                => queries[other].basic = CandidatesNow(queries[other])]_vars


(***************************************************************************)
(* WorkerManager.query: the promise of every call and its 'message'        *)
(* listener, with the events the worker posts while promises are pending   *)
(***************************************************************************)
\* The promise of a query() call whose listener is registered
PendingPromise == [state |-> "pending"]

\* resolve(event.payload): the promise holds the payload of the result event
\* of the handleQuery call queryId
Resolved(queryId) == [state |-> "resolved", queryId |-> queryId]

\* reject(new Error(...)): by the call's own 30 s timer, or with the message
\* of a worker-error event; queryId names the handleQuery call whose failure
\* the error reports, 0 when it is the embedding failure of a page
Rejected(cause, queryId) == [state |-> "rejected", cause |-> cause, queryId |-> queryId]

\* A message of the worker as the manager emits it: its type, and the query it
\* belongs to (0: a page of a crawl)
WorkerEvent(type, queryId) == [type |-> type, queryId |-> queryId]

\* The type of the message posted for an entry of queryLog: emitQueryStatus
\* posts 'query-status', the two others are posted under their own type
PostedType(entry) ==
  IF entry \in {"intelligent-query-result", "worker-error"} THEN entry ELSE "query-status"

\* The listener that settles on every event, whatever query it belongs to
handleMessage(promise, event) ==
  IF promise.state # "pending" THEN promise
  ELSE IF event.type \in {"intelligent-query-result", "query-result"}
  THEN Resolved(event.queryId)
  ELSE IF event.type = "worker-error"
  THEN Rejected("worker-error", event.queryId)
  ELSE promise

\* this.emit('message', event): every registered listener handles the event
emit(ps, event) == [id \in DOMAIN ps |-> handleMessage(ps[id], event)]

\* The messages handleQuery posts in one step, emitted in order
RECURSIVE emitAll(_, _, _)
emitAll(ps, entries, queryId) ==
  IF entries = <<>> THEN ps
  ELSE emitAll(emit(ps, WorkerEvent(PostedType(Head(entries)), queryId)),
               Tail(entries), queryId)

\* What the manager's steps leave alone
ManagerFrame ==
  UNCHANGED <<jobState, tasks, timers, jobLog, pageLog, index, started, cacheVars,
              vectors, statsLog, lastCall>>

\* WorkerManager.query(query, jobId, limit): the listener is registered and the
\* query message posted; handleQuery runs up to the await of intelligentRetrieve
ManagerQuery ==
  /\ asked < Cardinality(QueryIds)
  /\ asked' = asked + 1
  /\ handling' = PortEvent("query", 0)
  /\ \E payload \in QueryPayloads(asked + 1) :
       LET id == asked + 1 IN
       /\ queries' = [queries EXCEPT ![id] = QueryState(QueryOf(payload), "retrieve")]
       /\ queryLog' = [queryLog EXCEPT ![id] = <<"started">>]
       /\ promises' = [emit(promises, WorkerEvent("query-status", id)) EXCEPT ![id] = PendingPromise]
  /\ workerErrors' = workerErrors
  /\ ManagerFrame

\* The intelligentRetrieve call of a query ends on the empty store: it returns
\* the empty result or throws, handleQuery posts its messages, and the manager
\* emits each of them
IntelligentRetrieveEnds ==
  /\ \E id \in QueryIds, ok \in BOOLEAN :
       LET q == queries[id] IN
       /\ q.pc = "retrieve"
       /\ IF ok
          THEN /\ Returns(id, q, IntelligentRetrievalResult(<<>>, "absent"))
               /\ promises' = emitAll(promises, CompletedEvents, id)
          ELSE /\ Throws(id, q)
               /\ promises' = emitAll(promises, FailedEvents, id)
  /\ handling' = NoMessage
  /\ UNCHANGED <<asked, workerErrors>>
  /\ ManagerFrame

\* processUrl of a running crawl: the embedding of a page fails and the
\* worker-error is posted
EmbeddingFails ==
  /\ \E url \in Pages \ workerErrors :
       /\ workerErrors' = workerErrors \cup {url}
       /\ promises' = emit(promises, WorkerEvent("worker-error", 0))
  /\ handling' = NoMessage
  /\ UNCHANGED <<asked, queries, queryLog>>
  /\ ManagerFrame

\* The 30 s timer of a query() call fires before any event settled its promise
QueryTimeout ==
  /\ \E id \in QueryIds :
       /\ promises[id].state = "pending"
       /\ promises' = [promises EXCEPT ![id] = Rejected("timeout", id)]
  /\ handling' = NoMessage
  /\ UNCHANGED <<asked, queries, queryLog, workerErrors>>
  /\ ManagerFrame

ManagerInit == QueryInitial /\ vectors = <<>>

ManagerNext ==
  \/ ManagerQuery
  \/ IntelligentRetrieveEnds
  \/ EmbeddingFails
  \/ QueryTimeout

ManagerSpec == ManagerInit /\ [][ManagerNext]_vars

\* The promises that are settled
Settled == {id \in QueryIds : promises[id].state \in {"resolved", "rejected"}}

\* C39: every promise of WorkerManager.query is settled by an event of its own
\* query: it is resolved with the result of its own handleQuery call, and it
\* is rejected only by its own timer or by the failure of its own query, also
\* when another query is pending or a page of a crawl fails to embed
C39_QueryGetsOwnResult ==
  \A id \in Settled : promises[id].queryId = id


\* the position of a token in the text given to the chunker, 0 when the text
\* does not hold it (the words of a given text are all different)
PositionOf(token) ==
  IF \E p \in DOMAIN GivenTokens : GivenTokens[p] = token
  THEN CHOOSE p \in DOMAIN GivenTokens : GivenTokens[p] = token
  ELSE 0

\* the options the chunker is documented for
UsableOptions ==
  /\ OrDefault(lastCall.options.tokensPerChunk, DEFAULT_TOKENS_PER_CHUNK) >= 1
  /\ OrDefault(lastCall.options.overlapTokens, DEFAULT_OVERLAP_TOKENS) >= 0

(***************************************************************************)
(* C40: chunkText loses no input.  For every text with at least one token  *)
(* and every option set with tokensPerChunk >= 1 and overlapTokens >= 0:   *)
(* every token of the normalized text is in some chunk, the tokens of a    *)
(* chunk are tokens of the text in the order of the text, the first chunk  *)
(* starts with the first token and the last chunk ends with the last one,  *)
(* the order values are 0..k-1, and wordCount is the number of tokens of   *)
(* the chunk's text.                                                       *)
(***************************************************************************)
C40_NoTokenLost ==
  (Chunked /\ GivenTokens # <<>> /\ UsableOptions) =>
    LET chunks == lastCall.chunks
        k == Len(chunks)
    IN /\ k >= 1
       /\ \A p \in DOMAIN GivenTokens :
            \E j \in 1..k :
              \E i \in DOMAIN TokensOf(chunks[j].text) :
                TokensOf(chunks[j].text)[i] = GivenTokens[p]
       /\ \A j \in 1..k :
            LET held == TokensOf(chunks[j].text) IN
            /\ \A i \in DOMAIN held : PositionOf(held[i]) > 0
            /\ \A i \in 1..(Len(held) - 1) :
                 PositionOf(held[i]) < PositionOf(held[i + 1])
            /\ chunks[j].order = j - 1
            /\ chunks[j].wordCount = Len(held)
       /\ Head(TokensOf(chunks[1].text)) = Head(GivenTokens)
       /\ LastTokens(TokensOf(chunks[k].text), 1) = LastTokens(GivenTokens, 1)

\* a text of several overlapping windows whose short last window was merged
\* into the chunk before it
C40_Witness ==
  /\ Chunked
  /\ UsableOptions
  /\ Len(GivenTokens) = MaxTokens
  /\ Len(lastCall.chunks) >= 2
  /\ overlapTokens(lastCall.options) >= 1
  /\ TailMerged(lastCall.chunks[Len(lastCall.chunks)], lastCall.options)

====
